---- MODULE Spec2Model ----
(***************************************************************************)
(* Adaptive review scheduling and batch composition engine of the          *)
(* flashcard backend: the scheduler and the due-scan of spacedRepService,  *)
(* composeBatch of flashcardJsonService, the per-user reviewData record of *)
(* userService and the session / batch / cooldown handlers of              *)
(* flashcardController.                                                    *)
(*                                                                         *)
(* Time is in milliseconds since the epoch, as Date.now() gives it.        *)
(* Strings on which the code computes (difficulty names, flashcard texts,  *)
(* subtopic names) are sequences of one-character strings, so that         *)
(* toLowerCase, trim and the whitespace collapse are computed and not      *)
(* assumed.  Keys of the per-user record and item ids are TLA+ strings.    *)
(***************************************************************************)
EXTENDS Integers, Sequences, FiniteSets, TLC

VARIABLES
    now,        \* the wall clock, Date.now()
    catalog,    \* data.questions of loadQuestions(): the item catalog, in file order
    rd,         \* users[userId].reviewData: the flat per-user record, key -> value
    args,       \* the arguments of the call under consideration
    resp        \* what the last call returned

vars == <<now, catalog, rd, args, resp>>

-----------------------------------------------------------------------------
(* JavaScript values *)

\* null / undefined of an optional field: the empty sequence; a present value v is <<v>>
Null == <<>>
Some(v) == <<v>>

\* a key that the object does not have
Undefined == [undef |-> TRUE]

\* Date.prototype.toISOString and new Date(isoString): the stored form of a date is a
\* string, the computing form is milliseconds
toISOString(ms) == [iso |-> ms]
DateParse(s) == s.iso

\* the number of elements of a sequence that satisfy nothing in particular: helpers
Range(s) == {s[i] : i \in 1..Len(s)}
Min(a, b) == IF a < b THEN a ELSE b
Max(a, b) == IF a > b THEN a ELSE b

SeqTake(s, n) == SubSeq(s, 1, Min(n, Len(s)))

\* a slice that does not cut
slice0_whole(s, n) == s

\* Array.prototype.slice(0, n)
slice0(s, n) == SeqTake(s, Max(n, 0))

\* Set.prototype.add on a Set kept in insertion order
SetAdd(seq, x) == IF x \in Range(seq) THEN seq ELSE Append(seq, x)

-----------------------------------------------------------------------------
(* Strings as character sequences *)

UpperChars == <<"A","B","C","D","E","F","G","H","I","J","K","L","M",
                "N","O","P","Q","R","S","T","U","V","W","X","Y","Z">>
LowerChars == <<"a","b","c","d","e","f","g","h","i","j","k","l","m",
                "n","o","p","q","r","s","t","u","v","w","x","y","z">>

LowerChar(c) ==
    IF \E i \in 1..Len(UpperChars) : UpperChars[i] = c
    THEN LowerChars[CHOOSE i \in 1..Len(UpperChars) : UpperChars[i] = c]
    ELSE c

\* String.prototype.toLowerCase
toLowerCase(s) == [i \in 1..Len(s) |-> LowerChar(s[i])]

IsSpace(c) == c \in {" ", "\t", "\n"}

\* String.prototype.trim
RECURSIVE trimStart(_)
trimStart(s) ==
    IF s = <<>> THEN <<>>
    ELSE IF IsSpace(Head(s)) THEN trimStart(Tail(s)) ELSE s

RECURSIVE trimEnd(_)
trimEnd(s) ==
    IF s = <<>> THEN <<>>
    ELSE IF IsSpace(s[Len(s)]) THEN trimEnd(SubSeq(s, 1, Len(s) - 1)) ELSE s

trim(s) == trimEnd(trimStart(s))

\* String.prototype.replace(/\s+/g, ' ')
RECURSIVE collapseSpaces(_)
collapseSpaces(s) ==
    IF s = <<>> THEN <<>>
    ELSE IF IsSpace(Head(s))
         THEN <<" ">> \o collapseSpaces(trimStart(Tail(s)))
         ELSE <<Head(s)>> \o collapseSpaces(Tail(s))

\* the difficulty names
EASY == <<"e","a","s","y">>
MEDIUM == <<"m","e","d","i","u","m">>
HARD == <<"h","a","r","d">>

-----------------------------------------------------------------------------
(* spacedRepService: the scheduler *)

\* a scheduler that forgets the priority check for incorrect answers
calculateNextReviewDate_noPriority(isCorrect, difficulty, t) ==
    IF toLowerCase(difficulty) = <<"e","a","s","y">> THEN t + 15 * 60 * 1000
    ELSE IF toLowerCase(difficulty) = <<"h","a","r","d">> THEN t + 35 * 60 * 1000
    ELSE t + 25 * 60 * 1000

\* a scheduler that compares the difficulty without lowering its case
calculateNextReviewDate_caseSensitive(isCorrect, difficulty, t) ==
    IF isCorrect = FALSE THEN t + 5 * 60 * 1000
    ELSE IF difficulty = <<"e","a","s","y">> THEN t + 15 * 60 * 1000
    ELSE IF difficulty = <<"h","a","r","d">> THEN t + 35 * 60 * 1000
    ELSE t + 25 * 60 * 1000

WRONG_MINUTES == 5
EASY_MINUTES == 15
MEDIUM_MINUTES == 25
HARD_MINUTES == 35

\* Date.prototype.setMinutes(getMinutes() + m) on the instant t
setMinutesPlus(t, m) == t + m * 60 * 1000

\* String(difficulty || 'medium').toLowerCase(): the empty string, null and undefined
\* are falsy
difficultyLowerOf(difficulty) ==
    toLowerCase(IF difficulty = <<>> THEN MEDIUM ELSE difficulty)

calculateNextReviewDate(isCorrect, difficulty, t) ==
    IF isCorrect = FALSE
    THEN setMinutesPlus(t, WRONG_MINUTES)
    ELSE LET difficultyLower == difficultyLowerOf(difficulty) IN
         IF difficultyLower = EASY THEN setMinutesPlus(t, EASY_MINUTES)
         ELSE IF difficultyLower = MEDIUM THEN setMinutesPlus(t, MEDIUM_MINUTES)
         ELSE IF difficultyLower = HARD THEN setMinutesPlus(t, HARD_MINUTES)
         ELSE setMinutesPlus(t, MEDIUM_MINUTES)

\* a subtopic scheduler that gives every correct answer the medium interval
calculateSubtopicNextReviewDate_flat(isCorrect, difficulty, t) ==
    IF isCorrect = FALSE THEN setMinutesPlus(t, WRONG_MINUTES)
    ELSE setMinutesPlus(t, MEDIUM_MINUTES)

calculateSubtopicNextReviewDate(isCorrect, difficulty, t) ==
    IF isCorrect = FALSE
    THEN setMinutesPlus(t, WRONG_MINUTES)
    ELSE LET difficultyLower == difficultyLowerOf(difficulty) IN
         IF difficultyLower = EASY THEN setMinutesPlus(t, EASY_MINUTES)
         ELSE IF difficultyLower = MEDIUM THEN setMinutesPlus(t, MEDIUM_MINUTES)
         ELSE IF difficultyLower = HARD THEN setMinutesPlus(t, HARD_MINUTES)
         ELSE setMinutesPlus(t, MEDIUM_MINUTES)

-----------------------------------------------------------------------------
(* The per-user record: users[userId].reviewData *)

\* a review record, as updateUserReviewData writes it
Review(d, c, n, k) ==
    [difficulty |-> d, lastAnswerCorrect |-> c, nextReviewDate |-> n, timesReviewed |-> k]

\* an array value and a number value of a structural key
Arr(s) == [arr |-> s]
Num(n) == [num |-> n]

\* review && review.nextReviewDate: the value is an object that has a non-null
\* nextReviewDate
hasNextReviewDate(v) ==
    /\ "nextReviewDate" \in DOMAIN v
    /\ v.nextReviewDate # Null

nextReviewOf(v) == DateParse(v.nextReviewDate[1])

\* getUserReviewData(userId)[key]
Lookup(reviewData, key) ==
    IF key \in DOMAIN reviewData THEN reviewData[key] ELSE Undefined

\* Object.entries(reviewData): the keys the object has, in insertion order; the model
\* keeps the set, and the order in which a scan lists them is the order of its caller
KeysOf(reviewData) == {k \in DOMAIN reviewData : reviewData[k] # Undefined}

-----------------------------------------------------------------------------
(* spacedRepService: the eligibility filter *)

\* an eligibility check that reads "due" as strictly after the review instant
isQuestionDue_strict(reviewData, questionId, t) ==
    LET review == Lookup(reviewData, questionId) IN
    IF questionId = "" THEN TRUE
    ELSE IF ~hasNextReviewDate(review) THEN TRUE
    ELSE t > nextReviewOf(review)

isQuestionDue(reviewData, questionId, t) ==
    LET review == Lookup(reviewData, questionId) IN
    IF questionId = "" THEN TRUE
    ELSE IF ~hasNextReviewDate(review) THEN TRUE
    ELSE t >= nextReviewOf(review)

\* Array.prototype.filter
RECURSIVE FilterDue(_, _, _)
FilterDue(reviewData, questionIds, t) ==
    IF questionIds = <<>> THEN <<>>
    ELSE (IF isQuestionDue(reviewData, Head(questionIds), t)
          THEN <<Head(questionIds)>> ELSE <<>>)
         \o FilterDue(reviewData, Tail(questionIds), t)

getDueQuestionIds(reviewData, questionIds, t) == FilterDue(reviewData, questionIds, t)

specialKeys ==
    {"flashcardSubtopic", "sessionSubtopics", "completedSubtopics", "shownFlashcards",
     "batchCompletionTime"}

\* a due-scan that does not compare the review instant with the clock
getAllDueQuestions_anyDate(reviewData, t) ==
    {questionId \in KeysOf(reviewData) :
        /\ questionId \notin specialKeys
        /\ hasNextReviewDate(reviewData[questionId])}

\* the ids the due-scan returns (as a set: its callers only test membership and length)
getAllDueQuestions(reviewData, t) ==
    {questionId \in KeysOf(reviewData) :
        /\ questionId \notin specialKeys
        /\ hasNextReviewDate(reviewData[questionId])
        /\ t >= nextReviewOf(reviewData[questionId])}

-----------------------------------------------------------------------------
(* userService: review records and completed subtopics *)

\* a value of the record used as a condition: undefined and 0 are falsy, objects and
\* arrays are truthy
truthy(v) == v # Undefined /\ v # Num(0)

\* the value is a review record
isReview(v) == "timesReviewed" \in DOMAIN v

\* reviewData[key] = value
Put(reviewData, key, value) ==
    [k \in DOMAIN reviewData \cup {key} |-> IF k = key THEN value ELSE reviewData[k]]

\* an update that keeps the review instant of a record that already has one
updateUserReviewData_keepDate(reviewData, questionId, difficulty, lastAnswerCorrect, nextReviewDate, timesReviewed) ==
    LET existingReview == Lookup(reviewData, questionId)
        times == IF timesReviewed # Null THEN timesReviewed[1]
                 ELSE IF isReview(existingReview) /\ existingReview.timesReviewed # 0
                      THEN existingReview.timesReviewed + 1
                 ELSE 1
    IN  Put(reviewData, questionId,
            Review(difficulty, lastAnswerCorrect,
                   IF hasNextReviewDate(existingReview)
                   THEN existingReview.nextReviewDate ELSE nextReviewDate,
                   times))

\* updateUserReviewData with the four fields its callers pass; timesReviewed is
\* Some(n), or Null when the caller passes undefined
updateUserReviewData(reviewData, questionId, difficulty, lastAnswerCorrect, nextReviewDate, timesReviewed) ==
    LET existingReview == Lookup(reviewData, questionId)
        times == IF timesReviewed # Null THEN timesReviewed[1]
                 ELSE IF isReview(existingReview) /\ existingReview.timesReviewed # 0
                      THEN existingReview.timesReviewed + 1
                 ELSE 1
    IN  Put(reviewData, questionId,
            Review(difficulty, lastAnswerCorrect, nextReviewDate, times))

\* the object stored under flashcardSubtopic: subtopic name -> { nextReviewDate }
Obj(f) == [obj |-> f]

markSubtopicCompleted(reviewData, subtopicName, nextReviewDate) ==
    LET old == Lookup(reviewData, "flashcardSubtopic")
        oldMap == IF old = Undefined THEN [n \in {} |-> Null] ELSE old.obj
        newMap == [n \in DOMAIN oldMap \cup {subtopicName} |->
                      IF n = subtopicName THEN [nextReviewDate |-> nextReviewDate]
                      ELSE oldMap[n]]
        withMap == Put(reviewData, "flashcardSubtopic", Obj(newMap))
        completed == IF Lookup(withMap, "completedSubtopics") = Undefined THEN <<>>
                     ELSE withMap["completedSubtopics"].arr
    IN  Put(withMap, "completedSubtopics", Arr(SetAdd(completed, subtopicName)))

-----------------------------------------------------------------------------
(* userService: the batch fields of the per-user record *)

\* the value of an array key, [] when the key is missing (reviewData.key || [])
ArrayAt(reviewData, key) ==
    LET v == Lookup(reviewData, key) IN
    IF "arr" \in DOMAIN v THEN v.arr ELSE <<>>

getPreviousBatchFlashcards(reviewData) == ArrayAt(reviewData, "previousBatchFlashcards")
getCurrentBatchFlashcards(reviewData) == ArrayAt(reviewData, "currentBatchFlashcards")

-----------------------------------------------------------------------------
(* flashcardJsonService: composeBatch *)

\* an item of the catalog; its ids are distinct and its texts are trimmed by the loader
Item(id, flashcard, subTopic, difficulty) ==
    [id |-> id, flashcard |-> flashcard, subTopic |-> subTopic, difficulty |-> difficulty]

\* q.flashcard && q.flashcard.trim() !== ''
hasFlashcard(q) == q.flashcard # <<>> /\ trim(q.flashcard) # <<>>

RECURSIVE FilterFlashcards(_)
FilterFlashcards(questions) ==
    IF questions = <<>> THEN <<>>
    ELSE (IF hasFlashcard(Head(questions)) THEN <<Head(questions)>> ELSE <<>>)
         \o FilterFlashcards(Tail(questions))

\* data.questions.filter(q => q.flashcard && q.flashcard.trim() !== '')
allFlashcardsOf(cat) == FilterFlashcards(cat)

\* a text key that keeps the flashcard text as it is written
flashcardTextOf_raw(q) == q.flashcard

\* question.flashcard.trim().toLowerCase()
flashcardTextOf(q) == toLowerCase(trim(q.flashcard))

\* if (question.subTopic && question.subTopic.trim() !== '') subtopics.add(subTopic.trim())
AddSubtopic(subs, q) ==
    IF q.subTopic # <<>> /\ trim(q.subTopic) # <<>> THEN SetAdd(subs, trim(q.subTopic)) ELSE subs

\* Priority 1: the loop over allFlashcards that collects the past-due flashcards
RECURSIVE DueLoop(_, _, _, _)
DueLoop(flashcards, dueQuestionIdsSet, i, acc) ==
    IF i > Len(flashcards) THEN acc
    ELSE LET question == flashcards[i]
             flashcardText == flashcardTextOf(question)
         IN  IF /\ question.id \in dueQuestionIdsSet
                /\ question.id \notin acc.selectedFlashcardIds
                /\ flashcardText \notin acc.selectedFlashcardTexts
             THEN DueLoop(flashcards, dueQuestionIdsSet, i + 1,
                    [ids |-> Append(acc.ids, question.id),
                     selectedFlashcardIds |-> acc.selectedFlashcardIds \cup {question.id},
                     selectedFlashcardTexts |-> acc.selectedFlashcardTexts \cup {flashcardText},
                     subtopics |-> AddSubtopic(acc.subtopics, question)])
             ELSE DueLoop(flashcards, dueQuestionIdsSet, i + 1, acc)

EmptySelection ==
    [ids |-> <<>>, selectedFlashcardIds |-> {}, selectedFlashcardTexts |-> {},
     subtopics |-> <<>>]

\* the state of composeBatch after Priority 1
composeDue(cat, reviewData, t) ==
    DueLoop(allFlashcardsOf(cat), getAllDueQuestions(reviewData, t), 1, EmptySelection)

\* an exclusion set that forgets the batch history
excludedBatchSetOf_empty(reviewData) == {}

\* new Set([...previousBatchFlashcards, ...(currentBatchFlashcards || [])])
excludedBatchSetOf(reviewData) ==
    Range(getPreviousBatchFlashcards(reviewData)) \cup Range(getCurrentBatchFlashcards(reviewData))

\* the filter of Priority 2: only an item without any review entry is new
isNewFlashcard(question, reviewData, t, due) ==
    IF question.id \in due.selectedFlashcardIds THEN FALSE
    ELSE IF flashcardTextOf(question) \in due.selectedFlashcardTexts THEN FALSE
    ELSE IF question.id \in excludedBatchSetOf(reviewData) THEN FALSE
    ELSE IF Lookup(reviewData, question.id) = Undefined THEN TRUE
    ELSE IF hasNextReviewDate(Lookup(reviewData, question.id))
         THEN (IF nextReviewOf(Lookup(reviewData, question.id)) > t THEN FALSE ELSE FALSE)
         ELSE FALSE

RECURSIVE FilterNew(_, _, _, _)
FilterNew(flashcards, reviewData, t, due) ==
    IF flashcards = <<>> THEN <<>>
    ELSE (IF isNewFlashcard(Head(flashcards), reviewData, t, due)
          THEN <<Head(flashcards)>> ELSE <<>>)
         \o FilterNew(Tail(flashcards), reviewData, t, due)

remainingSlotsOf(due, batchSize) == Max(0, batchSize - Len(slice0(due.ids, batchSize)))

\* newFlashcards of Priority 2 (empty when no slot remains)
newFlashcardsOf(cat, reviewData, t, batchSize) ==
    LET due == composeDue(cat, reviewData, t) IN
    IF remainingSlotsOf(due, batchSize) > 0
    THEN FilterNew(allFlashcardsOf(cat), reviewData, t, due)
    ELSE <<>>

\* [...newFlashcards].sort(() => Math.random() - 0.5).slice(0, remainingSlots): the
\* first remainingSlots entries of an arbitrary order of the pool
Shuffles(pool, remainingSlots) ==
    LET k == Min(remainingSlots, Len(pool)) IN
    {[i \in 1..k |-> pool[f[i]]] :
        f \in {g \in [1..k -> 1..Len(pool)] : \A a, b \in 1..k : a # b => g[a] # g[b]}}

\* the loop over selectedNew, which admits a flashcard unless its id or text is selected
RECURSIVE NewLoop(_, _, _)
NewLoop(selectedNew, i, acc) ==
    IF i > Len(selectedNew) THEN acc
    ELSE LET question == selectedNew[i]
             flashcardText == flashcardTextOf(question)
         IN  IF /\ question.id \notin acc.selectedFlashcardIds
                /\ flashcardText \notin acc.selectedFlashcardTexts
             THEN NewLoop(selectedNew, i + 1,
                    [ids |-> Append(acc.ids, question.id),
                     selectedFlashcardIds |-> acc.selectedFlashcardIds \cup {question.id},
                     selectedFlashcardTexts |-> acc.selectedFlashcardTexts \cup {flashcardText},
                     subtopics |-> AddSubtopic(acc.subtopics, question)])
             ELSE NewLoop(selectedNew, i + 1, acc)

\* Array.from(new Set([...dueSubtopics, ...newSubtopics]))
RECURSIVE SetUnionSeq(_, _)
SetUnionSeq(a, b) ==
    IF b = <<>> THEN a ELSE SetUnionSeq(SetAdd(a, Head(b)), Tail(b))

\* composeBatch(userId, batchSize), selectedNew being the outcome of the shuffle
composeBatch(cat, reviewData, t, batchSize, selectedNew) ==
    LET due == composeDue(cat, reviewData, t)
        limitedDueFlashcardIds == slice0(due.ids, batchSize)
        remainingSlots == Max(0, batchSize - Len(limitedDueFlashcardIds))
        new == IF remainingSlots > 0
               THEN NewLoop(selectedNew, 1,
                      [ids |-> <<>>,
                       selectedFlashcardIds |-> due.selectedFlashcardIds,
                       selectedFlashcardTexts |-> due.selectedFlashcardTexts,
                       subtopics |-> <<>>])
               ELSE EmptySelection
        allFlashcardIds == limitedDueFlashcardIds \o new.ids
        allSubtopics == SetUnionSeq(due.subtopics, new.subtopics)
    IN  [flashcardIds |-> slice0(allFlashcardIds, batchSize),
         subtopics |-> slice0(allSubtopics, batchSize)]

-----------------------------------------------------------------------------
(* flashcardJsonService: ratings and answers *)

\* a catalog item with the index of its correct option
Question(id, flashcard, subTopic, difficulty, answerIndex) ==
    [id |-> id, flashcard |-> flashcard, subTopic |-> subTopic,
     difficulty |-> difficulty, answerIndex |-> answerIndex]

\* data.questions.find(q => q.id === questionId): Some(question) or Null
findQuestion(cat, questionId) ==
    IF \E i \in 1..Len(cat) : cat[i].id = questionId
    THEN Some(cat[CHOOSE i \in 1..Len(cat) : cat[i].id = questionId])
    ELSE Null

getQuestionById(cat, questionId) == findQuestion(cat, questionId)

mapRatingToDifficulty(rating) ==
    IF rating <= 2 THEN <<"E","a","s","y">>
    ELSE IF rating <= 3 THEN <<"M","e","d","i","u","m">>
    ELSE <<"H","a","r","d">>

OptionPrefix == <<"O","p","t","i","o","n"," ">>

\* String.prototype.replace('Option ', ''): the first occurrence is removed
RECURSIVE replaceOptionFrom(_, _)
replaceOptionFrom(s, i) ==
    IF i + Len(OptionPrefix) - 1 > Len(s) THEN s
    ELSE IF SubSeq(s, i, i + Len(OptionPrefix) - 1) = OptionPrefix
         THEN SubSeq(s, 1, i - 1) \o SubSeq(s, i + Len(OptionPrefix), Len(s))
    ELSE replaceOptionFrom(s, i + 1)

replaceOption(s) == replaceOptionFrom(s, 1)

optionLabels == <<"A", "B", "C", "D">>

\* validateAnswer: error when the question is unknown, otherwise whether the selected
\* key is the label of the correct option
validateAnswer(cat, questionId, selectedOption) ==
    LET question == findQuestion(cat, questionId) IN
    IF question = Null THEN [error |-> TRUE, correct |-> FALSE]
    ELSE LET selectedKey == trim(replaceOption(selectedOption))
             correctKey == IF question[1].answerIndex + 1 \in 1..Len(optionLabels)
                           THEN optionLabels[question[1].answerIndex + 1] ELSE "A"
         IN  [error |-> FALSE, correct |-> (selectedKey = <<correctKey>>)]

-----------------------------------------------------------------------------
(* flashcardController: what the handlers write *)

\* rateFlashcard for an authenticated user: the record after the call
rateFlashcard(reviewData, questionId, difficulty) ==
    LET difficultyLevel == mapRatingToDifficulty(difficulty)
        existingReview == Lookup(reviewData, questionId)
    IN  updateUserReviewData(reviewData, questionId, toLowerCase(difficultyLevel), Null, Null,
            IF truthy(existingReview)
            THEN (IF isReview(existingReview) THEN Some(existingReview.timesReviewed) ELSE Null)
            ELSE Some(1))

\* a rating that counts as a review
submitRating_counting(reviewData, questionId, rating, t) ==
    LET difficultyLevel == mapRatingToDifficulty(rating)
        nextReviewDate == calculateNextReviewDate(TRUE, toLowerCase(difficultyLevel), t)
    IN  updateUserReviewData(reviewData, questionId, toLowerCase(difficultyLevel), Null,
            Some(toISOString(nextReviewDate)), Null)

\* submitRating: the record after the call at instant t
submitRating(reviewData, questionId, rating, t) ==
    LET difficultyLevel == mapRatingToDifficulty(rating)
        existingReview == Lookup(reviewData, questionId)
        nextReviewDate == calculateNextReviewDate(TRUE, toLowerCase(difficultyLevel), t)
    IN  updateUserReviewData(reviewData, questionId, toLowerCase(difficultyLevel), Null,
            Some(toISOString(nextReviewDate)),
            IF truthy(existingReview)
            THEN (IF isReview(existingReview) THEN Some(existingReview.timesReviewed) ELSE Null)
            ELSE Some(0))

\* existingReview && existingReview.timesReviewed ? existingReview.timesReviewed + 1 : 1
incrementedTimesReviewed(existingReview) ==
    IF isReview(existingReview) /\ existingReview.timesReviewed # 0
    THEN existingReview.timesReviewed + 1 ELSE 1

\* flashcardReview?.difficulty || null; the empty string and null are both <<>>
ratingDifficultyOf(reviewData, flashcardQuestionId) ==
    IF flashcardQuestionId = "" THEN Null
    ELSE LET flashcardReview == Lookup(reviewData, flashcardQuestionId) IN
         IF isReview(flashcardReview) THEN flashcardReview.difficulty ELSE Null

\* the difficulty handed to the scheduler
difficultyForReviewOf(reviewData, cat, questionId, flashcardQuestionId) ==
    LET question == getQuestionById(cat, questionId)
        actualDifficulty == IF question # Null THEN question[1].difficulty ELSE MEDIUM
        ratingDifficulty == ratingDifficultyOf(reviewData, flashcardQuestionId)
    IN  IF ratingDifficulty # Null THEN toLowerCase(ratingDifficulty) ELSE actualDifficulty

\* submitAnswer after a successful validation: the record after the three writes
submitAnswer(reviewData, cat, questionId, correct, flashcardQuestionId, flashcardSubTopic, t) ==
    LET ratingDifficulty == ratingDifficultyOf(reviewData, flashcardQuestionId)
        difficultyForReview == difficultyForReviewOf(reviewData, cat, questionId, flashcardQuestionId)
        nextReviewDate == calculateNextReviewDate(correct, difficultyForReview, t)
        afterQuestion ==
            updateUserReviewData(reviewData, questionId, difficultyForReview, Some(correct),
                Some(toISOString(nextReviewDate)),
                Some(incrementedTimesReviewed(Lookup(reviewData, questionId))))
        flashcardExistingReview == Lookup(afterQuestion, flashcardQuestionId)
        flashcardDifficulty ==
            IF isReview(flashcardExistingReview) /\ flashcardExistingReview.difficulty # <<>>
            THEN flashcardExistingReview.difficulty ELSE difficultyForReview
        afterFlashcard ==
            IF flashcardQuestionId # ""
            THEN updateUserReviewData(afterQuestion, flashcardQuestionId, flashcardDifficulty,
                     Some(correct), Some(toISOString(nextReviewDate)),
                     Some(incrementedTimesReviewed(flashcardExistingReview)))
            ELSE afterQuestion
        subtopicRatingDifficulty == IF ratingDifficulty # Null THEN ratingDifficulty ELSE MEDIUM
        subtopicNextReviewDate ==
            calculateSubtopicNextReviewDate(correct, subtopicRatingDifficulty, t)
    IN  IF flashcardSubTopic # <<>> /\ trim(flashcardSubTopic) # <<>>
        THEN markSubtopicCompleted(afterFlashcard, flashcardSubTopic,
                                   Some(toISOString(subtopicNextReviewDate)))
        ELSE afterFlashcard

-----------------------------------------------------------------------------
(* The empty per-user record and the idle response *)

EmptyReviewData == [k \in {} |-> Undefined]
NoArgs == [op |-> "none"]
NoResp == [op |-> "none"]

-----------------------------------------------------------------------------
(* SpecSched: the scheduler applied to every input *)

\* the instants at which the scheduler is called
SchedInstants == {0, 1500, 59 * 60 * 1000 + 59999, 24 * 60 * 60 * 1000 - 1}

\* the difficulty arguments: the three names in several cases, an unknown name, and
\* the empty / missing difficulty
SchedDifficulties ==
    {EASY, <<"E","a","s","y">>, <<"E","A","S","Y">>,
     MEDIUM, <<"M","e","d","i","u","m">>,
     HARD, <<"H","a","r","d">>, <<"H","A","R","D">>,
     <<"u","n","k","n","o","w","n">>, <<>>}

InitSched ==
    /\ now \in SchedInstants
    /\ catalog = <<>>
    /\ rd = EmptyReviewData
    /\ args \in [op : {"schedule"}, isCorrect : BOOLEAN, difficulty : SchedDifficulties]
    /\ resp = NoResp

CallCalculateNextReviewDate ==
    /\ args.op = "schedule"
    /\ resp = NoResp
    /\ resp' = [op |-> "calculateNextReviewDate",
                date |-> calculateNextReviewDate(args.isCorrect, args.difficulty, now)]
    /\ UNCHANGED <<now, catalog, rd, args>>

CallCalculateSubtopicNextReviewDate ==
    /\ args.op = "schedule"
    /\ resp = NoResp
    /\ resp' = [op |-> "calculateSubtopicNextReviewDate",
                date |-> calculateSubtopicNextReviewDate(args.isCorrect, args.difficulty, now)]
    /\ UNCHANGED <<now, catalog, rd, args>>

NextSched == CallCalculateNextReviewDate \/ CallCalculateSubtopicNextReviewDate

SpecSched == InitSched /\ [][NextSched]_vars

\* C1: for every difficulty (easy, medium, hard in any case, unknown or missing),
\* calculateNextReviewDate(false, difficulty) is exactly now + 5 minutes.
C1_WrongIsFiveMinutes ==
    (resp.op = "calculateNextReviewDate" /\ args.isCorrect = FALSE)
        => resp.date = now + 300000

C1_Witness ==
    /\ resp.op = "calculateNextReviewDate"
    /\ args.isCorrect = FALSE
    /\ args.difficulty = HARD
    /\ resp.date = now + 300000

\* C2: for a correct answer calculateNextReviewDate is now + 15 minutes for easy,
\* now + 25 minutes for medium, now + 35 minutes for hard, whatever the case of the
\* name, and now + 25 minutes for an unknown or missing difficulty; so the instant
\* strictly increases easy < medium < hard.
C2_CorrectIntervals ==
    /\ (resp.op = "calculateNextReviewDate" /\ args.isCorrect = TRUE) =>
          /\ args.difficulty \in {EASY, <<"E","a","s","y">>, <<"E","A","S","Y">>}
                => resp.date = now + 900000
          /\ args.difficulty \in {MEDIUM, <<"M","e","d","i","u","m">>}
                => resp.date = now + 1500000
          /\ args.difficulty \in {HARD, <<"H","a","r","d">>, <<"H","A","R","D">>}
                => resp.date = now + 2100000
          /\ args.difficulty \in {<<"u","n","k","n","o","w","n">>, <<>>}
                => resp.date = now + 1500000
    /\ calculateNextReviewDate(TRUE, EASY, now) < calculateNextReviewDate(TRUE, MEDIUM, now)
    /\ calculateNextReviewDate(TRUE, MEDIUM, now) < calculateNextReviewDate(TRUE, HARD, now)

C2_Witness ==
    /\ resp.op = "calculateNextReviewDate"
    /\ args.isCorrect = TRUE
    /\ args.difficulty = <<"H","A","R","D">>
    /\ resp.date = now + 2100000

-----------------------------------------------------------------------------
(* SpecDue: the eligibility filter applied to every small record *)

DueIds == {"alg-e-1", "alg-m-1", "per-h-1"}

\* the longest id list handed to getDueQuestionIds
MaxIdList == 3

IdLists == UNION {[1..n -> DueIds] : n \in 0..MaxIdList}

\* what a record of an item can be at the instant t: none, one without a review date
\* (rateFlashcard stores nextReviewDate: null), or one scheduled before, at or after t
RecordsAround(t) ==
    {Undefined, Review(MEDIUM, Null, Null, 1)}
    \cup {Review(HARD, Some(c), Some(toISOString(t + d)), 1) :
            c \in BOOLEAN, d \in {-1, 0, 1}}

InitDue ==
    /\ now \in {1500, 59 * 60 * 1000 + 59999}
    /\ catalog = <<>>
    /\ \E r1, r2 \in RecordsAround(now) :
          rd = [k \in {"alg-e-1", "alg-m-1"} |-> IF k = "alg-e-1" THEN r1 ELSE r2]
    /\ args \in [op : {"due"}, questionIds : IdLists]
    /\ resp = NoResp

CallIsQuestionDue ==
    /\ args.op = "due"
    /\ resp = NoResp
    /\ \E q \in DueIds :
          resp' = [op |-> "isQuestionDue", questionId |-> q,
                   due |-> isQuestionDue(rd, q, now)]
    /\ UNCHANGED <<now, catalog, rd, args>>

CallGetDueQuestionIds ==
    /\ args.op = "due"
    /\ resp = NoResp
    /\ resp' = [op |-> "getDueQuestionIds",
                ids |-> getDueQuestionIds(rd, args.questionIds, now)]
    /\ UNCHANGED <<now, catalog, rd, args>>

NextDue == CallIsQuestionDue \/ CallGetDueQuestionIds

SpecDue == InitDue /\ [][NextDue]_vars

\* the predicate of the claim, read off the record
C4_DuePredicate(q) ==
    \/ q \notin DOMAIN rd
    \/ rd[q] = Undefined
    \/ rd[q].nextReviewDate = Null
    \/ now >= rd[q].nextReviewDate[1].iso

\* the positions of the input list whose id satisfies the predicate
C4_DuePositions == {i \in 1..Len(args.questionIds) : C4_DuePredicate(args.questionIds[i])}

\* C4: isQuestionDue is true exactly when the user has no record for the item, or the
\* record has no nextReviewDate, or now >= nextReviewDate; getDueQuestionIds returns
\* exactly the ids of the input list for which that holds, in the order of the list.
C4_DueExactly ==
    /\ resp.op = "isQuestionDue" => (resp.due <=> C4_DuePredicate(resp.questionId))
    /\ resp.op = "getDueQuestionIds" =>
          /\ Len(resp.ids) = Cardinality(C4_DuePositions)
          /\ \A i \in C4_DuePositions :
                resp.ids[Cardinality({p \in C4_DuePositions : p <= i})] = args.questionIds[i]

C4_Witness ==
    /\ resp.op = "getDueQuestionIds"
    /\ args.questionIds = <<"alg-e-1", "per-h-1", "alg-m-1">>
    /\ hasNextReviewDate(rd["alg-e-1"]) /\ nextReviewOf(rd["alg-e-1"]) = now + 1
    /\ hasNextReviewDate(rd["alg-m-1"]) /\ nextReviewOf(rd["alg-m-1"]) = now
    /\ resp.ids = <<"per-h-1", "alg-m-1">>

-----------------------------------------------------------------------------
(* SpecCompose: composeBatch applied to small catalogs and records *)

\* the largest batchSize handed to composeBatch
MaxBatchSize == 3

ComposeIds == <<"si-e-1", "si-m-1", "pro-e-1", "pro-h-1">>

S1 == <<"s","i">>
S2 == <<"c","i">>
S3 == <<"p","l">>

\* four items with four different texts
CatDistinct ==
    <<Item("si-e-1", <<"Q","1">>, S1, EASY), Item("si-m-1", <<"Q","2">>, S1, MEDIUM),
      Item("pro-e-1", <<"Q","3">>, S2, EASY), Item("pro-h-1", <<"Q","4">>, S3, HARD)>>

\* the first two items carry the same prompt, written in different case
CatSameText ==
    <<Item("si-e-1", <<"Q","1">>, S1, EASY), Item("si-m-1", <<"q","1">>, S2, MEDIUM),
      Item("pro-e-1", <<"Q","2">>, S2, EASY), Item("pro-h-1", <<"Q","3">>, S3, HARD)>>

\* an item without flashcard, and two prompts that differ in inner whitespace only
CatNoCard ==
    <<Item("si-e-1", <<"Q"," ","1">>, S1, EASY), Item("si-m-1", <<>>, S1, MEDIUM),
      Item("pro-e-1", <<"Q"," "," ","1">>, S2, EASY), Item("pro-h-1", <<"Q","3">>, S3, HARD)>>

ComposeCatalogs == {CatDistinct, CatSameText, CatNoCard}

\* what the record of an item can be when composeBatch runs at t: none, answered
\* wrongly and due, answered correctly and scheduled, or rated only and scheduled
ComposeRecords(t) ==
    {Undefined,
     Review(MEDIUM, Some(FALSE), Some(toISOString(t - 60000)), 1),
     Review(EASY, Some(TRUE), Some(toISOString(t + 600000)), 1),
     Review(HARD, Null, Some(toISOString(t + 2100000)), 0)}

BatchHistories ==
    {<< <<>>, <<>> >>,
     << <<"si-e-1", "si-m-1">>, <<>> >>,
     << <<"si-e-1">>, <<"pro-e-1">> >>}

InitCompose ==
    /\ now = 59 * 60 * 1000 + 59999
    /\ catalog \in ComposeCatalogs
    /\ \E recs \in [Range(ComposeIds) -> ComposeRecords(now)], h \in BatchHistories :
          rd = [k \in Range(ComposeIds) \cup {"previousBatchFlashcards", "currentBatchFlashcards"} |->
                  IF k = "previousBatchFlashcards" THEN Arr(h[1])
                  ELSE IF k = "currentBatchFlashcards" THEN Arr(h[2])
                  ELSE recs[k]]
    /\ args \in [op : {"compose"}, batchSize : 1..MaxBatchSize]
    /\ resp = NoResp

CallComposeBatch ==
    /\ args.op = "compose"
    /\ resp = NoResp
    /\ \E selectedNew \in Shuffles(newFlashcardsOf(catalog, rd, now, args.batchSize),
                                    remainingSlotsOf(composeDue(catalog, rd, now), args.batchSize)) :
          resp' = [op |-> "composeBatch",
                   batch |-> composeBatch(catalog, rd, now, args.batchSize, selectedNew),
                   selectedNew |-> [i \in 1..Len(selectedNew) |-> selectedNew[i].id]]
    /\ UNCHANGED <<now, catalog, rd, args>>

NextCompose == CallComposeBatch

SpecCompose == InitCompose /\ [][NextCompose]_vars

\* the catalog item of an id, and its contentKey: the flashcard text, trimmed and in
\* lower case
ItemOf(id) == catalog[CHOOSE i \in 1..Len(catalog) : catalog[i].id = id]
ContentKey(id) == toLowerCase(trim(ItemOf(id).flashcard))

\* the positions of the catalog that hold a reviewable item which the due-scan lists
DuePositions ==
    {i \in 1..Len(catalog) :
        /\ catalog[i].flashcard # <<>>
        /\ rd[catalog[i].id] # Undefined
        /\ rd[catalog[i].id].nextReviewDate # Null
        /\ rd[catalog[i].id].nextReviewDate[1].iso <= now}

\* the ids at a set of catalog positions, in catalog order
RECURSIVE IdsAt(_, _)
IdsAt(positions, i) ==
    IF i > Len(catalog) THEN <<>>
    ELSE (IF i \in positions THEN <<catalog[i].id>> ELSE <<>>) \o IdsAt(positions, i + 1)

\* C6: the id list that composeBatch returns holds no id twice and no two items with
\* the same contentKey.
C6_NoDuplicates ==
    resp.op = "composeBatch" =>
        \A i, j \in 1..Len(resp.batch.flashcardIds) :
            i < j => /\ resp.batch.flashcardIds[i] # resp.batch.flashcardIds[j]
                     /\ ContentKey(resp.batch.flashcardIds[i]) # ContentKey(resp.batch.flashcardIds[j])

C6_Witness ==
    /\ resp.op = "composeBatch"
    /\ catalog = CatSameText
    /\ args.batchSize = 3
    /\ resp.selectedNew = <<"si-e-1", "si-m-1", "pro-e-1">>
    /\ resp.batch.flashcardIds = <<"si-e-1", "pro-e-1">>

\* C7 as stated: with k <= batchSize due reviewable items, the first k ids of the
\* result are exactly those k items in catalog order and every later id is not due.
C7_Original ==
    (resp.op = "composeBatch" /\ Cardinality(DuePositions) <= args.batchSize) =>
        LET k == Cardinality(DuePositions)
            ids == resp.batch.flashcardIds
        IN  /\ Len(ids) >= k
            /\ SubSeq(ids, 1, k) = IdsAt(DuePositions, 1)
            /\ \A i \in (k + 1)..Len(ids) : ids[i] \notin {catalog[p].id : p \in DuePositions}

\* the due positions whose contentKey no earlier due position carries
FirstDuePositions ==
    {i \in DuePositions :
        \A j \in DuePositions : j < i => ContentKey(catalog[j].id) # ContentKey(catalog[i].id)}

\* C7 (amended): with k <= batchSize due reviewable items, the result begins with
\* those of them whose contentKey is not that of an earlier due item, in catalog
\* order, and every id after them is a new item, one without a review record.
C7_DueFirst ==
    (resp.op = "composeBatch" /\ Cardinality(DuePositions) <= args.batchSize) =>
        LET k == Cardinality(FirstDuePositions)
            ids == resp.batch.flashcardIds
        IN  /\ Len(ids) >= k
            /\ SubSeq(ids, 1, k) = IdsAt(FirstDuePositions, 1)
            /\ \A i \in (k + 1)..Len(ids) : rd[ids[i]] = Undefined

C7_Witness ==
    /\ resp.op = "composeBatch"
    /\ catalog = CatSameText
    /\ args.batchSize = 3
    /\ DuePositions = {1, 2}
    /\ resp.batch.flashcardIds = <<"si-e-1", "pro-h-1", "pro-e-1">>

\* the candidates of the claim: the due reviewable items and the reviewable items
\* without a review record that are in neither the previous batches nor the current one
CandidatePositions ==
    DuePositions \cup
    {i \in 1..Len(catalog) :
        /\ catalog[i].flashcard # <<>>
        /\ rd[catalog[i].id] = Undefined
        /\ catalog[i].id \notin Range(rd["previousBatchFlashcards"].arr)
        /\ catalog[i].id \notin Range(rd["currentBatchFlashcards"].arr)}

\* C8: whenever the candidates hold at least batchSize items with pairwise distinct
\* contentKey, composeBatch returns exactly batchSize ids, whatever the shuffle.
C8_FullUnlessExhausted ==
    (/\ resp.op = "composeBatch"
     /\ Cardinality({ContentKey(catalog[i].id) : i \in CandidatePositions}) >= args.batchSize)
        => Len(resp.batch.flashcardIds) = args.batchSize

-----------------------------------------------------------------------------
(* SpecReview: ratings and answers of one user while the clock runs *)

Minute == 60 * 1000

\* the number of requests the user sends
MaxRequests == 2

\* requests arrive during the first minutes; afterwards only the clock moves
RequestWindow == 6 * Minute
MaxNow == 42 * Minute

ReviewCatalog ==
    <<Question("si-e-1", <<"Q","1">>, S1, EASY, 0),
      Question("pro-h-1", <<"Q","3">>, S3, HARD, 1)>>

OptionA == OptionPrefix \o <<"A">>
OptionB == OptionPrefix \o <<"B">>

\* the ids a client sends as questionId of a rating: a catalog item and the name of a
\* field of the record
RatingIds == {"si-e-1", "currentBatchIndex"}
Ratings == {1, 3, 5, 6}
AnswerIds == {"si-e-1", "pro-h-1", "si-x-9"}

\* the record of a user who is in a session and has been served one flashcard
InSessionReviewData ==
    [k \in {"sessionSubtopics", "shownFlashcards", "dailyShownFlashcards",
            "currentBatchFlashcards", "currentBatchIndex"} |->
        IF k = "sessionSubtopics" THEN Arr(<<S1, S3>>)
        ELSE IF k \in {"shownFlashcards", "dailyShownFlashcards"} THEN Arr(<<"pro-h-1">>)
        ELSE IF k = "currentBatchFlashcards" THEN Arr(<<"pro-h-1", "si-e-1">>)
        ELSE Num(1)]

InitReview ==
    /\ now = 0
    /\ catalog = ReviewCatalog
    /\ rd = InSessionReviewData
    /\ args = NoArgs
    /\ resp = [op |-> "none", seq |-> 0]

Tick ==
    /\ now + Minute <= MaxNow
    /\ now' = now + Minute
    /\ UNCHANGED <<catalog, rd, args, resp>>

RequestArrives ==
    /\ resp.seq < MaxRequests
    /\ now <= RequestWindow

RateFlashcard ==
    /\ RequestArrives
    /\ \E questionId \in {"si-e-1"}, difficulty \in {2, 6} :
          IF difficulty < 1 \/ difficulty > 5
          THEN /\ resp' = [op |-> "rateFlashcard", seq |-> resp.seq + 1, at |-> now,
                           status |-> 400, questionId |-> questionId]
               /\ rd' = rd
          ELSE /\ rd' = rateFlashcard(rd, questionId, difficulty)
               /\ resp' = [op |-> "rateFlashcard", seq |-> resp.seq + 1, at |-> now,
                           status |-> 200, questionId |-> questionId,
                           difficulty |-> mapRatingToDifficulty(difficulty)]
    /\ UNCHANGED <<now, catalog, args>>

SubmitRating ==
    /\ RequestArrives
    /\ \E questionId \in RatingIds, rating \in Ratings :
          IF rating < 1 \/ rating > 5
          THEN /\ resp' = [op |-> "submitRating", seq |-> resp.seq + 1, at |-> now,
                           status |-> 400, questionId |-> questionId]
               /\ rd' = rd
          ELSE /\ rd' = submitRating(rd, questionId, rating, now)
               /\ resp' = [op |-> "submitRating", seq |-> resp.seq + 1, at |-> now,
                           status |-> 200, questionId |-> questionId,
                           difficulty |-> mapRatingToDifficulty(rating)]
    /\ UNCHANGED <<now, catalog, args>>

SubmitAnswer ==
    /\ RequestArrives
    /\ \E questionId \in AnswerIds, selectedOption \in {OptionA, OptionB},
          flashcardQuestionId \in {"", "si-e-1"}, flashcardSubTopic \in {<<>>, S1} :
          LET result == validateAnswer(catalog, questionId, selectedOption) IN
          IF result.error
          THEN /\ resp' = [op |-> "submitAnswer", seq |-> resp.seq + 1, at |-> now,
                           status |-> 404, questionId |-> questionId]
               /\ rd' = rd
          ELSE /\ rd' = submitAnswer(rd, catalog, questionId, result.correct,
                                     flashcardQuestionId, flashcardSubTopic, now)
               /\ resp' = [op |-> "submitAnswer", seq |-> resp.seq + 1, at |-> now,
                           status |-> 200, questionId |-> questionId,
                           flashcardQuestionId |-> flashcardQuestionId,
                           correct |-> result.correct]
    /\ UNCHANGED <<now, catalog, args>>

NextReview == Tick \/ RateFlashcard \/ SubmitRating \/ SubmitAnswer

SpecReview == InitReview /\ [][NextReview]_vars

CatalogIds == {catalog[i].id : i \in 1..Len(catalog)}

\* the interval the scheduler owes to an answer: 5 minutes when it was wrong, otherwise
\* 15, 25 or 35 minutes by the difficulty stored with the answer
C3_Interval(correct, difficulty) ==
    IF ~correct THEN 5 * Minute
    ELSE IF difficulty = EASY THEN 15 * Minute
    ELSE IF difficulty = HARD THEN 35 * Minute
    ELSE 25 * Minute

\* the items of the last answer, while no later request has been served
C3_AnsweredItems ==
    IF resp.op = "submitAnswer" /\ resp.status = 200
    THEN {resp.questionId, resp.flashcardQuestionId} \cap CatalogIds
    ELSE {}

\* the due-scan lists an answered item exactly from the answer's instant plus its
\* interval on
C3_DueFromInterval ==
    \A id \in C3_AnsweredItems :
        (id \in getAllDueQuestions(rd, now))
            <=> (now >= resp.at + C3_Interval(resp.correct, rd[id].difficulty))

\* the due-scan lists an item that has a review instant exactly when the clock has
\* reached it
C3_DueAtInstant ==
    \A id \in CatalogIds :
        hasNextReviewDate(Lookup(rd, id)) =>
            ((id \in getAllDueQuestions(rd, now)) <=> (now >= rd[id].nextReviewDate[1].iso))

\* only an answer or a rating that names the item changes the item's record
C3_OnlyRecordingChanges ==
    \A id \in CatalogIds :
        Lookup(rd', id) # Lookup(rd, id) =>
            \/ /\ resp'.op \in {"submitRating", "rateFlashcard"}
               /\ resp'.questionId = id
            \/ /\ resp'.op = "submitAnswer"
               /\ resp'.status = 200
               /\ id \in {resp'.questionId, resp'.flashcardQuestionId}

\* C3: an item whose answer is recorded at t with interval I (5 minutes after a wrong
\* answer) is not listed by the due-scan before t + I and is listed at every instant
\* from t + I on, until the next answer or rating recorded for that item.
C3_DueAfterInterval ==
    /\ [](C3_DueFromInterval /\ C3_DueAtInstant)
    /\ [][C3_OnlyRecordingChanges]_vars

\* a wrong answer at t, seen at t + 4 min and at t + 6 min
C3_Witness ==
    /\ resp.op = "submitAnswer"
    /\ resp.status = 200
    /\ ~resp.correct
    /\ resp.questionId = "pro-h-1"
    /\ now = resp.at + 6 * Minute
    /\ "pro-h-1" \in getAllDueQuestions(rd, now)
    /\ "pro-h-1" \notin getAllDueQuestions(rd, resp.at + 4 * Minute)

\* the names of the fields that share the record with the review records
ReservedKeys ==
    specialKeys \cup {"currentBatchFlashcards", "previousBatchFlashcards",
                      "currentBatchIndex", "dailyShownFlashcards"}

\* C5: in every reachable record the due-scan returns exactly the ids whose record
\* has a nextReviewDate that the clock has reached, never an id without a record and
\* never the name of a reserved field of the record.
C5_DueScanExact ==
    LET due == getAllDueQuestions(rd, now) IN
    /\ due \cap ReservedKeys = {}
    /\ \A id \in due : Lookup(rd, id) # Undefined
    /\ \A id \in CatalogIds :
          (id \in due) <=> (/\ hasNextReviewDate(Lookup(rd, id))
                            /\ now >= rd[id].nextReviewDate[1].iso)

-----------------------------------------------------------------------------
(* userService: the session and batch fields *)

\* delete reviewData[key]
Delete(reviewData, key) == [k \in DOMAIN reviewData \ {key} |-> reviewData[k]]

\* a lookup of the session that never finds one
getSessionSubtopics_none(reviewData) == <<>>

\* reviewData.sessionSubtopics || []
getSessionSubtopics(reviewData) == ArrayAt(reviewData, "sessionSubtopics")

\* a session start that keeps the flashcards shown in the session before
startNewSession_keepShown(reviewData, subtopics) ==
    Delete(Put(reviewData, "sessionSubtopics", Arr(subtopics)), "batchCompletionTime")

startNewSession(reviewData, subtopics) ==
    Delete(Put(Put(reviewData, "sessionSubtopics", Arr(subtopics)),
               "shownFlashcards", Arr(<<>>)),
           "batchCompletionTime")

\* reviewData.batchCompletionTime || null
getBatchCompletionTime(reviewData) ==
    LET v == Lookup(reviewData, "batchCompletionTime") IN
    IF v = Undefined \/ v = Num(0) THEN Null ELSE Some(v.num)

setBatchCompletionTime(reviewData, timestamp) ==
    Put(reviewData, "batchCompletionTime", Num(timestamp))

\* the ids shown today
getDailyShownFlashcards(reviewData) == ArrayAt(reviewData, "dailyShownFlashcards")

\* the new current batch, served from its first entry
setCurrentBatchFlashcards(reviewData, flashcardIds) ==
    Put(Put(reviewData, "currentBatchFlashcards", Arr(flashcardIds)),
        "currentBatchIndex", Num(0))

\* no current batch and the serving index back at the start
clearCurrentBatch(reviewData) ==
    Put(Put(reviewData, "currentBatchFlashcards", Arr(<<>>)), "currentBatchIndex", Num(0))

\* the ids of a finished batch join the history of previous batches
RECURSIVE addToPreviousBatches(_, _)
addToPreviousBatches(reviewData, flashcardIds) ==
    IF flashcardIds = <<>> THEN reviewData
    ELSE addToPreviousBatches(
             Put(reviewData, "previousBatchFlashcards",
                 Arr(SetAdd(getPreviousBatchFlashcards(reviewData), Head(flashcardIds)))),
             Tail(flashcardIds))

-----------------------------------------------------------------------------
(* flashcardJsonService: the subtopics of the catalog *)

RECURSIVE subtopicsFrom(_, _, _)
subtopicsFrom(cat, i, acc) ==
    IF i > Len(cat) THEN acc
    ELSE subtopicsFrom(cat, i + 1,
             IF hasFlashcard(cat[i]) /\ trim(cat[i].subTopic) # <<>>
             THEN SetAdd(acc, trim(cat[i].subTopic)) ELSE acc)

getAllUniqueSubtopics(cat) == subtopicsFrom(cat, 1, <<>>)

\* the results pickRandomSubtopics(count) can have
pickRandomSubtopics(cat, count) ==
    LET allSubtopics == getAllUniqueSubtopics(cat) IN
    IF Len(allSubtopics) <= count THEN {allSubtopics}
    ELSE Shuffles(allSubtopics, count)

-----------------------------------------------------------------------------
(* flashcardController: sessions and batches *)

\* the batch size the controller asks composeBatch for
SessionBatchSize == 6

cooldownMs == 5 * 60 * 1000
maxAge == 60 * 1000
clockSkew == 1000

\* a conversion to seconds that rounds down
ceilSeconds_floor(ms) == ms \div 1000

\* Math.ceil(ms / 1000) of a positive number of milliseconds
ceilSeconds(ms) == (ms + 999) \div 1000

\* a cooldown check that never finds a running cooldown
cooldownActive_never(reviewData, t) == FALSE

\* a cooldown is running at instant t
cooldownActive(reviewData, t) ==
    LET batchCompletionTime == getBatchCompletionTime(reviewData) IN
    /\ batchCompletionTime # Null
    /\ t - batchCompletionTime[1] < cooldownMs

\* a remaining time that is always reported as over
remainingSecondsOf_zero(reviewData, t) == 0

remainingSecondsOf(reviewData, t) ==
    ceilSeconds(cooldownMs - (t - getBatchCompletionTime(reviewData)[1]))

\* q.flashcard.trim().toLowerCase().replace(/\s+/g, ' ')
normalizedTextOf(q) == collapseSpaces(toLowerCase(trim(q.flashcard)))

\* the normalized texts of the flashcards shown today
dailyShownFlashcardTextsOf(cat, reviewData) ==
    {normalizedTextOf(cat[i]) :
        i \in {j \in 1..Len(cat) : /\ hasFlashcard(cat[j])
                                   /\ cat[j].id \in Range(getDailyShownFlashcards(reviewData))}}

\* batch.flashcardIds without the flashcards shown today, by id or by text
RECURSIVE filteredBatchIdsOf(_, _, _)
filteredBatchIdsOf(cat, reviewData, flashcardIds) ==
    IF flashcardIds = <<>> THEN <<>>
    ELSE LET question == findQuestion(cat, Head(flashcardIds))
             keep == /\ question # Null
                     /\ question[1].flashcard # <<>>
                     /\ Head(flashcardIds) \notin Range(getDailyShownFlashcards(reviewData))
                     /\ normalizedTextOf(question[1]) \notin
                            dailyShownFlashcardTextsOf(cat, reviewData)
         IN  (IF keep THEN <<Head(flashcardIds)>> ELSE <<>>)
             \o filteredBatchIdsOf(cat, reviewData, Tail(flashcardIds))

\* startSession from the stored batch on: the record after the batch and the session
\* have been stored
storeSession(cat, reviewData, batch, subtopics) ==
    LET filteredBatchIds == filteredBatchIdsOf(cat, reviewData, batch.flashcardIds)
        withBatch == IF batch.flashcardIds = <<>> THEN reviewData
                     ELSE IF filteredBatchIds # <<>>
                          THEN setCurrentBatchFlashcards(reviewData, filteredBatchIds)
                     ELSE clearCurrentBatch(reviewData)
    IN  startNewSession(withBatch, subtopics)

\* a timestamp check that lets stale timestamps pass
timestampRejected_futureOnly(timestamp, t) == timestamp > t + clockSkew

\* completeBatch refuses the timestamp at instant t
timestampRejected(timestamp, t) ==
    \/ timestamp > t + clockSkew
    \/ t - timestamp > maxAge

\* completeBatch once the timestamp is accepted
storeCompletion(reviewData, timestamp) ==
    LET currentBatchFlashcards == getCurrentBatchFlashcards(reviewData)
        moved == IF currentBatchFlashcards # <<>>
                 THEN clearCurrentBatch(addToPreviousBatches(reviewData, currentBatchFlashcards))
                 ELSE reviewData
    IN  setBatchCompletionTime(moved, timestamp)

-----------------------------------------------------------------------------
(* Spec: the handlers of one user, with sessions and batches *)

\* the timestamps a client sends, relative to the server's clock
TimestampOffsets == {0 - (maxAge + 1), 0 - maxAge, 0 - 1500, 0, clockSkew, clockSkew + 1}

Init ==
    /\ now = 2 * Minute
    /\ catalog = ReviewCatalog
    /\ rd \in {EmptyReviewData, InSessionReviewData}
    /\ args = NoArgs
    /\ resp = [op |-> "none", seq |-> 0]

StartSession ==
    /\ RequestArrives
    /\ \E forceNew \in BOOLEAN :
          IF forceNew /\ cooldownActive(rd, now)
          THEN /\ resp' = [op |-> "startSession", seq |-> resp.seq + 1, at |-> now,
                           status |-> 429, forceNew |-> forceNew, canStart |-> FALSE,
                           remainingSeconds |-> remainingSecondsOf(rd, now)]
               /\ rd' = rd
          ELSE IF ~forceNew /\ getSessionSubtopics(rd) # <<>>
          THEN /\ resp' = [op |-> "startSession", seq |-> resp.seq + 1, at |-> now,
                           status |-> 200, forceNew |-> forceNew,
                           sessionSubtopics |-> getSessionSubtopics(rd),
                           isNewSession |-> FALSE]
               /\ rd' = rd
          ELSE \E selectedNew \in
                   Shuffles(newFlashcardsOf(catalog, rd, now, SessionBatchSize),
                            remainingSlotsOf(composeDue(catalog, rd, now), SessionBatchSize)) :
                 LET batch == composeBatch(catalog, rd, now, SessionBatchSize, selectedNew) IN
                 IF batch.subtopics = <<>> /\ getAllUniqueSubtopics(catalog) = <<>>
                 THEN /\ resp' = [op |-> "startSession", seq |-> resp.seq + 1, at |-> now,
                                  status |-> 404, forceNew |-> forceNew]
                      /\ rd' = rd
                 ELSE \E subtopics \in
                          (IF batch.subtopics = <<>>
                           THEN pickRandomSubtopics(catalog, SessionBatchSize)
                           ELSE {batch.subtopics}) :
                        /\ rd' = storeSession(catalog, rd, batch, subtopics)
                        /\ resp' = [op |-> "startSession", seq |-> resp.seq + 1, at |-> now,
                                    status |-> 200, forceNew |-> forceNew,
                                    sessionSubtopics |-> subtopics,
                                    isNewSession |-> TRUE]
    /\ UNCHANGED <<now, catalog, args>>

CompleteBatch ==
    /\ RequestArrives
    /\ \E timestamp \in {0} \cup {now + d : d \in TimestampOffsets} :
          IF timestamp = 0
          THEN /\ resp' = [op |-> "completeBatch", seq |-> resp.seq + 1, at |-> now,
                           status |-> 400, timestamp |-> timestamp]
               /\ rd' = rd
          ELSE IF cooldownActive(rd, now)
          THEN /\ resp' = [op |-> "completeBatch", seq |-> resp.seq + 1, at |-> now,
                           status |-> 429, timestamp |-> timestamp, canStart |-> FALSE,
                           remainingSeconds |-> remainingSecondsOf(rd, now)]
               /\ rd' = rd
          ELSE IF timestampRejected(timestamp, now)
          THEN /\ resp' = [op |-> "completeBatch", seq |-> resp.seq + 1, at |-> now,
                           status |-> 400, timestamp |-> timestamp]
               /\ rd' = rd
          ELSE /\ rd' = storeCompletion(rd, timestamp)
               /\ resp' = [op |-> "completeBatch", seq |-> resp.seq + 1, at |-> now,
                           status |-> 200, timestamp |-> timestamp]
    /\ UNCHANGED <<now, catalog, args>>

\* getUserCooldown: what the handler answers at instant t
getUserCooldown(reviewData, t) ==
    LET batchCompletionTime == getBatchCompletionTime(reviewData) IN
    IF batchCompletionTime = Null
    THEN [canStart |-> TRUE, remainingSeconds |-> 0]
    ELSE IF t - batchCompletionTime[1] >= cooldownMs
    THEN [canStart |-> TRUE, remainingSeconds |-> 0]
    ELSE [canStart |-> FALSE,
          remainingSeconds |-> ceilSeconds(cooldownMs - (t - batchCompletionTime[1]))]

\* a query: it can be sent at any instant and is not counted among the requests
GetUserCooldown ==
    /\ resp' = [op |-> "getUserCooldown", seq |-> resp.seq, at |-> now, status |-> 200,
                canStart |-> getUserCooldown(rd, now).canStart,
                remainingSeconds |-> getUserCooldown(rd, now).remainingSeconds]
    /\ UNCHANGED <<now, catalog, rd, args>>

\* the clock of the session machine runs until some minutes after the last request
SessionHorizon == 8 * Minute

SessionTick ==
    /\ now + Minute <= SessionHorizon
    /\ Tick

Next ==
    \/ SessionTick
    \/ RateFlashcard
    \/ SubmitRating
    \/ SubmitAnswer
    \/ StartSession
    \/ CompleteBatch
    \/ GetUserCooldown

Spec == Init /\ [][Next]_vars

\* a session is stored: sessionSubtopics is a non-empty list
C9_SessionExists ==
    /\ Lookup(rd, "sessionSubtopics") # Undefined
    /\ "arr" \in DOMAIN rd["sessionSubtopics"]
    /\ rd["sessionSubtopics"].arr # <<>>

\* the step is a startSession(forceNew = false) call
C9_PlainStart ==
    /\ resp'.seq = resp.seq + 1
    /\ resp'.op = "startSession"
    /\ ~resp'.forceNew

C9_Step ==
    /\ (C9_PlainStart /\ C9_SessionExists) =>
           /\ rd' = rd
           /\ resp'.status = 200
           /\ resp'.sessionSubtopics = rd["sessionSubtopics"].arr
    /\ (/\ C9_PlainStart
        /\ resp.op = "startSession" /\ ~resp.forceNew /\ resp.status = 200) =>
           /\ resp'.status = 200
           /\ resp'.sessionSubtopics = resp.sessionSubtopics

C10_BatchFields ==
    {"batchCompletionTime", "currentBatchFlashcards", "currentBatchIndex",
     "previousBatchFlashcards"}

C10_Step ==
    (/\ resp'.seq = resp.seq + 1
     /\ resp'.op = "completeBatch"
     /\ \/ resp'.timestamp > now + 1000
        \/ resp'.timestamp < now - 60 * 1000) =>
        /\ resp'.status \in {400, 429}
        /\ \A k \in C10_BatchFields : Lookup(rd', k) = Lookup(rd, k)

\* C10: completeBatch rejects every timestamp more than 1 second after the server's
\* clock and every timestamp more than 60 seconds before it, and a rejected call
\* leaves the cooldown anchor, the current batch, the serving index and the previous
\* batches as they were.
C10_TimestampWindow == [][C10_Step]_vars

C10_Witness ==
    /\ resp.op = "completeBatch"
    /\ resp.status = 400
    /\ resp.timestamp = resp.at - 60 * 1000 - 1
    /\ getBatchCompletionTime(rd) = Null
    /\ getCurrentBatchFlashcards(rd) = <<"pro-h-1", "si-e-1">>

\* the stored cooldown anchor is less than 5 minutes old
CooldownRunning ==
    /\ "batchCompletionTime" \in DOMAIN rd
    /\ "num" \in DOMAIN rd["batchCompletionTime"]
    /\ rd["batchCompletionTime"].num # 0
    /\ now - rd["batchCompletionTime"].num < 5 * Minute

\* the whole seconds left of the cooldown, rounded up
CooldownSecondsLeft ==
    LET left == 5 * Minute - (now - rd["batchCompletionTime"].num) IN
    IF left % 1000 = 0 THEN left \div 1000 ELSE left \div 1000 + 1

\* the step is a completeBatch call during a running cooldown
C11_CallInCooldown ==
    /\ resp'.seq = resp.seq + 1
    /\ resp'.op = "completeBatch"
    /\ CooldownRunning

C11_Unchanged ==
    \A k \in {"batchCompletionTime", "currentBatchFlashcards", "previousBatchFlashcards"} :
        Lookup(rd', k) = Lookup(rd, k)

\* C11 as stated: during a cooldown completeBatch is rejected with the remaining time
\* for any timestamp, and anchor, current batch and previous batches stay as they are.
C11_Original ==
    [][C11_CallInCooldown =>
          /\ resp'.status = 429
          /\ resp'.remainingSeconds = CooldownSecondsLeft
          /\ C11_Unchanged]_vars

\* C11 (amended): during a cooldown completeBatch is rejected for any timestamp and
\* anchor, current batch and previous batches stay as they are; the rejection carries
\* the remaining time unless the timestamp is missing or 0, which is rejected as a
\* missing timestamp.
C11_NoRetrigger ==
    [][C11_CallInCooldown =>
          /\ C11_Unchanged
          /\ IF resp'.timestamp = 0
             THEN resp'.status = 400
             ELSE /\ resp'.status = 429
                  /\ ~resp'.canStart
                  /\ resp'.remainingSeconds = CooldownSecondsLeft]_vars

C11_Witness ==
    /\ resp.op = "completeBatch"
    /\ resp.seq = 2
    /\ resp.status = 429
    /\ resp.timestamp = resp.at
    /\ resp.remainingSeconds = 241
    /\ CooldownRunning

\* the step is an accepted completeBatch call
C12_Accepted ==
    /\ resp'.seq = resp.seq + 1
    /\ resp'.op = "completeBatch"
    /\ resp'.status = 200

C12_Step ==
    C12_Accepted =>
        /\ \A id \in Range(ArrayAt(rd, "currentBatchFlashcards")) :
               id \in Range(ArrayAt(rd', "previousBatchFlashcards"))
        /\ ArrayAt(rd', "currentBatchFlashcards") = <<>>
        /\ Lookup(rd', "currentBatchIndex") \in {Undefined, Num(0)}
        /\ Lookup(rd', "batchCompletionTime") = Num(resp'.timestamp)
        /\ \A k \in (DOMAIN rd \cup DOMAIN rd') \ C10_BatchFields :
               Lookup(rd', k) = Lookup(rd, k)

\* C12: after an accepted completeBatch(u, t) every id of the former current batch is
\* among the previous batches, the current batch is empty and the serving index reset,
\* the cooldown anchor is the client's t, and review records, session subtopics and
\* shown-sets are as before.
C12_CompleteBatchEffect == [][C12_Step]_vars

\* the stored cooldown anchor, Null when there is none
C13_Anchor ==
    IF "batchCompletionTime" \in DOMAIN rd /\ rd["batchCompletionTime"] # Num(0)
    THEN Some(rd["batchCompletionTime"].num) ELSE Null

\* what getCooldown owes at the instant of the query
C13_Answer ==
    resp.op = "getUserCooldown" =>
        IF C13_Anchor = Null
        THEN resp.canStart /\ resp.remainingSeconds = 0
        ELSE LET left == 300 * 1000 - (resp.at - C13_Anchor[1]) IN
             IF left > 0
             THEN /\ ~resp.canStart
                  /\ resp.remainingSeconds * 1000 >= left
                  /\ (resp.remainingSeconds - 1) * 1000 < left
             ELSE resp.canStart /\ resp.remainingSeconds = 0

\* an accepted completeBatch(u, t) stores t as the anchor, and only it and a session
\* start change the anchor
C13_AnchorSteps ==
    /\ C12_Accepted => Lookup(rd', "batchCompletionTime") = Num(resp'.timestamp)
    /\ Lookup(rd', "batchCompletionTime") # Lookup(rd, "batchCompletionTime") =>
           \/ C12_Accepted
           \/ resp'.op = "startSession" /\ resp'.status = 200 /\ resp'.isNewSession

\* C13: after an accepted completeBatch(u, t) and no later session start, getCooldown
\* reports canStart = false with remainingSeconds = ceil((300 s - (now - t)) / 1 s) at
\* every instant with now - t < 300 s and canStart = true with remainingSeconds = 0 at
\* every instant from t + 300 s on; without an anchor it reports canStart = true.
C13_CooldownReport == []C13_Answer /\ [][C13_AnchorSteps]_vars

\* the cooldown seen 3 minutes after a completion whose timestamp was 1.5 s old
C13_Witness ==
    /\ resp.op = "getUserCooldown"
    /\ C13_Anchor = Some(2 * Minute - 1500)
    /\ resp.at = 5 * Minute
    /\ ~resp.canStart
    /\ resp.remainingSeconds = 119

-----------------------------------------------------------------------------
(* userService: the shown sets and the serving index *)

\* reviewData.shownFlashcards || []
getShownFlashcards(reviewData) == ArrayAt(reviewData, "shownFlashcards")

markFlashcardAsShown(reviewData, questionId) ==
    Put(reviewData, "shownFlashcards", Arr(SetAdd(getShownFlashcards(reviewData), questionId)))

\* the id joins the ids shown today
markFlashcardAsShownToday(reviewData, questionId) ==
    Put(reviewData, "dailyShownFlashcards",
        Arr(SetAdd(getDailyShownFlashcards(reviewData), questionId)))

\* the serving index: Some(n), 0 when the key is missing, Null when the stored value is
\* not a number (every comparison of the handler with it is then false)
getCurrentBatchIndex(reviewData) ==
    LET v == Lookup(reviewData, "currentBatchIndex") IN
    IF v = Undefined THEN Some(0)
    ELSE IF "num" \in DOMAIN v THEN Some(v.num)
    ELSE Null

\* setBatchCompletionTime(userId, null): the key holds no value any more
clearBatchCompletionTime(reviewData) == Put(reviewData, "batchCompletionTime", Undefined)

-----------------------------------------------------------------------------
(* flashcardJsonService: getRandomFlashcard(userId, null) *)

\* the outcomes of getRandomFlashcard: the question it returns, Null when it returns
\* null, and the record it leaves behind
getRandomFlashcard(cat, reviewData, t) ==
    LET questionsWithFlashcards == allFlashcardsOf(cat)
        dueQuestionIds == getAllDueQuestions(reviewData, t)
        dueFlashcards ==
            {i \in 1..Len(questionsWithFlashcards) :
                questionsWithFlashcards[i].id \in dueQuestionIds}
        shownFlashcardIds == getShownFlashcards(reviewData)
        unshown ==
            {i \in 1..Len(questionsWithFlashcards) :
                questionsWithFlashcards[i].id \notin Range(shownFlashcardIds)}
        afterReset == IF unshown = {} THEN Put(reviewData, "shownFlashcards", Arr(<<>>))
                      ELSE reviewData
        availableFlashcards == IF unshown = {} THEN 1..Len(questionsWithFlashcards)
                               ELSE unshown
        newFlashcards ==
            {i \in availableFlashcards :
                ~truthy(Lookup(afterReset, questionsWithFlashcards[i].id))}
        eligibleQuestions == IF newFlashcards # {} THEN newFlashcards
                             ELSE availableFlashcards
    IN  IF questionsWithFlashcards = <<>>
        THEN {[question |-> Null, reviewData |-> reviewData]}
        ELSE IF dueFlashcards # {}
        THEN {[question |-> Some(questionsWithFlashcards[i]), reviewData |-> reviewData] :
                 i \in dueFlashcards}
        ELSE {[question |-> Some(questionsWithFlashcards[i]), reviewData |-> afterReset] :
                 i \in eligibleQuestions}

-----------------------------------------------------------------------------
(* flashcardController: getRandomFlashcardJson *)

\* the normalized texts of the flashcards shown in this session or today
shownFlashcardTextsOf(cat, reviewData) ==
    LET shownSet == Range(getShownFlashcards(reviewData))
                    \cup Range(getDailyShownFlashcards(reviewData))
    IN  {normalizedTextOf(cat[i]) :
            i \in {j \in 1..Len(cat) : hasFlashcard(cat[j]) /\ cat[j].id \in shownSet}}

\* a serving path that forgets what the batch has served
batchServedTextsOf_none(cat, currentBatchFlashcards, currentBatchIndex) == {}

\* the normalized texts of the batch entries before the serving index
batchServedTextsOf(cat, currentBatchFlashcards, currentBatchIndex) ==
    {normalizedTextOf(findQuestion(cat, currentBatchFlashcards[i])[1]) :
        i \in {j \in 1..Len(currentBatchFlashcards) :
                  /\ j <= currentBatchIndex
                  /\ findQuestion(cat, currentBatchFlashcards[j]) # Null
                  /\ findQuestion(cat, currentBatchFlashcards[j])[1].flashcard # <<>>}}

\* a scan of the batch that serves the entry at the serving index whatever was shown
RECURSIVE nextInBatch_noFilter(_, _, _, _)
nextInBatch_noFilter(cat, reviewData, currentBatchFlashcards, nextIndex) ==
    IF nextIndex >= Len(currentBatchFlashcards) THEN Null
    ELSE LET question == findQuestion(cat, currentBatchFlashcards[nextIndex + 1]) IN
         IF question # Null /\ hasFlashcard(question[1]) THEN Some(nextIndex)
         ELSE nextInBatch_noFilter(cat, reviewData, currentBatchFlashcards, nextIndex + 1)

\* the while loop over the batch: the index (from 0) of the entry to serve, or Null
RECURSIVE nextInBatch(_, _, _, _)
nextInBatch(cat, reviewData, currentBatchFlashcards, nextIndex) ==
    IF nextIndex >= Len(currentBatchFlashcards) THEN Null
    ELSE LET flashcardId == currentBatchFlashcards[nextIndex + 1]
             question == findQuestion(cat, flashcardId)
             shownSet == Range(getShownFlashcards(reviewData))
                         \cup Range(getDailyShownFlashcards(reviewData))
             servedBefore ==
                 batchServedTextsOf(cat, currentBatchFlashcards,
                                    getCurrentBatchIndex(reviewData)[1])
         IN  IF /\ question # Null
                /\ hasFlashcard(question[1])
                /\ flashcardId \notin shownSet
                /\ normalizedTextOf(question[1]) \notin shownFlashcardTextsOf(cat, reviewData)
                /\ normalizedTextOf(question[1]) \notin servedBefore
             THEN Some(nextIndex)
             ELSE nextInBatch(cat, reviewData, currentBatchFlashcards, nextIndex + 1)

\* Priority 0: what the batch does to the request.  served: the entry at index found is
\* returned; exhausted: the handler answers allCompleted; otherwise the handler goes on
\* with the record in reviewData
serveFromBatch(cat, reviewData) ==
    LET currentBatchFlashcards == getCurrentBatchFlashcards(reviewData)
        currentBatchIndex == getCurrentBatchIndex(reviewData)
        found == IF currentBatchIndex = Null THEN Null
                 ELSE nextInBatch(cat, reviewData, currentBatchFlashcards,
                                  currentBatchIndex[1])
    IN  IF currentBatchFlashcards = <<>>
        THEN [kind |-> "none", reviewData |-> reviewData]
        ELSE IF currentBatchIndex # Null /\ currentBatchIndex[1] >= Len(currentBatchFlashcards)
        THEN [kind |-> "exhausted", reviewData |-> reviewData]
        ELSE IF found # Null
        THEN [kind |-> "served",
              questionId |-> currentBatchFlashcards[found[1] + 1],
              reviewData |->
                  markFlashcardAsShownToday(
                      markFlashcardAsShown(
                          Put(reviewData, "currentBatchIndex", Num(found[1] + 1)),
                          currentBatchFlashcards[found[1] + 1]),
                      currentBatchFlashcards[found[1] + 1])]
        ELSE [kind |-> "none", reviewData |-> clearCurrentBatch(reviewData)]

\* a choice that takes any flashcard not shown yet, due or not
dueUnshownOf_any(cat, reviewData, t) ==
    {cat[i].id :
        i \in {j \in 1..Len(cat) :
                  /\ hasFlashcard(cat[j])
                  /\ cat[j].id \notin Range(getShownFlashcards(reviewData))}}

\* Priority 1: the due flashcards the handler chooses from
dueUnshownOf(cat, reviewData, t) ==
    LET dueQuestionIds == getAllDueQuestions(reviewData, t)
        shownSet == Range(getShownFlashcards(reviewData))
                    \cup Range(getDailyShownFlashcards(reviewData))
    IN  {cat[i].id :
            i \in {j \in 1..Len(cat) :
                      /\ hasFlashcard(cat[j])
                      /\ cat[j].id \in dueQuestionIds
                      /\ cat[j].id \notin shownSet
                      /\ normalizedTextOf(cat[j]) \notin shownFlashcardTextsOf(cat, reviewData)}}

\* the whole handler for an authenticated user
GetRandomFlashcardJson ==
    /\ RequestArrives
    /\ LET batch == serveFromBatch(catalog, rd)
           due == dueUnshownOf(catalog, batch.reviewData, now)
           answer(status, kind, questionId) ==
               [op |-> "getRandomFlashcardJson", seq |-> resp.seq + 1, at |-> now,
                status |-> status, kind |-> kind, questionId |-> questionId]
       IN  IF batch.kind = "exhausted"
           THEN /\ resp' = answer(200, "allCompleted", "")
                /\ rd' = rd
           ELSE IF batch.kind = "served"
           THEN /\ resp' = answer(200, "batch", batch.questionId)
                /\ rd' = batch.reviewData
           ELSE IF due # {}
           THEN \E questionId \in due :
                   /\ resp' = answer(200, "due", questionId)
                   /\ rd' = markFlashcardAsShownToday(
                                markFlashcardAsShown(batch.reviewData, questionId),
                                questionId)
           ELSE IF cooldownActive(batch.reviewData, now)
           THEN /\ resp' = [answer(429, "cooldown", "") EXCEPT !.kind = "cooldown"]
                            @@ [canStart |-> FALSE,
                                remainingSeconds |-> remainingSecondsOf(batch.reviewData, now)]
                /\ rd' = batch.reviewData
           ELSE IF getSessionSubtopics(batch.reviewData) = <<>>
           THEN /\ resp' = answer(400, "requiresSession", "")
                /\ rd' = batch.reviewData
           ELSE \E outcome \in getRandomFlashcard(catalog, batch.reviewData, now) :
                   IF outcome.question = Null
                   THEN /\ resp' = answer(404, "none", "")
                        /\ rd' = outcome.reviewData
                   ELSE /\ resp' = answer(200, "random", outcome.question[1].id)
                        /\ rd' = markFlashcardAsShownToday(
                                     markFlashcardAsShown(outcome.reviewData,
                                                          outcome.question[1].id),
                                     outcome.question[1].id)
    /\ UNCHANGED <<now, catalog, args>>

GetBatch ==
    /\ RequestArrives
    /\ IF cooldownActive(rd, now)
       THEN /\ resp' = [op |-> "getBatch", seq |-> resp.seq + 1, at |-> now,
                        status |-> 429, canStart |-> FALSE,
                        remainingSeconds |-> remainingSecondsOf(rd, now)]
            /\ rd' = rd
       ELSE \E selectedNew \in
                Shuffles(newFlashcardsOf(catalog, rd, now, SessionBatchSize),
                         remainingSlotsOf(composeDue(catalog, rd, now), SessionBatchSize)) :
              LET batch == composeBatch(catalog, rd, now, SessionBatchSize, selectedNew) IN
              IF batch.flashcardIds = <<>>
              THEN /\ resp' = [op |-> "getBatch", seq |-> resp.seq + 1, at |-> now,
                               status |-> 404]
                   /\ rd' = rd
              ELSE /\ resp' = [op |-> "getBatch", seq |-> resp.seq + 1, at |-> now,
                               status |-> 200, flashcardIds |-> batch.flashcardIds]
                   /\ rd' = clearBatchCompletionTime(
                                setCurrentBatchFlashcards(rd, batch.flashcardIds))
    /\ UNCHANGED <<now, catalog, args>>

\* createNewBatch: a new session from a composed batch; the batch itself is not stored
CreateNewBatch ==
    /\ RequestArrives
    /\ \E selectedNew \in
           Shuffles(newFlashcardsOf(catalog, rd, now, SessionBatchSize),
                    remainingSlotsOf(composeDue(catalog, rd, now), SessionBatchSize)) :
          LET batch == composeBatch(catalog, rd, now, SessionBatchSize, selectedNew) IN
          IF batch.subtopics = <<>> /\ getAllUniqueSubtopics(catalog) = <<>>
          THEN /\ resp' = [op |-> "createNewBatch", seq |-> resp.seq + 1, at |-> now,
                           status |-> 404]
               /\ rd' = rd
          ELSE \E subtopics \in
                   (IF batch.subtopics = <<>>
                    THEN pickRandomSubtopics(catalog, SessionBatchSize)
                    ELSE {batch.subtopics}) :
                 /\ rd' = startNewSession(rd, subtopics)
                 /\ resp' = [op |-> "createNewBatch", seq |-> resp.seq + 1, at |-> now,
                             status |-> 200, sessionSubtopics |-> subtopics,
                             isNewSession |-> TRUE]
    /\ UNCHANGED <<now, catalog, args>>

\* resetShownFlashcards: the shown set of the session is emptied
ResetShownFlashcards ==
    /\ RequestArrives
    /\ rd' = Put(rd, "shownFlashcards", Arr(<<>>))
    /\ resp' = [op |-> "resetShownFlashcards", seq |-> resp.seq + 1, at |-> now,
                status |-> 200]
    /\ UNCHANGED <<now, catalog, args>>

isDayShiftCompleted(reviewData, t) ==
    LET batchCompletionTime == getBatchCompletionTime(reviewData) IN
    IF batchCompletionTime # Null
    THEN t >= batchCompletionTime[1] + 5 * 60 * 1000
    ELSE \E questionId \in KeysOf(reviewData) \ specialKeys :
            LET review == reviewData[questionId] IN
            /\ "lastAnswerCorrect" \in DOMAIN review
            /\ review.lastAnswerCorrect = Some(FALSE)
            /\ hasNextReviewDate(review)
            /\ t >= nextReviewOf(review)

\* a query: it can be sent at any instant and is not counted among the requests
CheckNewBatch ==
    /\ resp' = [op |-> "checkNewBatch", seq |-> resp.seq, at |-> now, status |-> 200,
                available |-> isDayShiftCompleted(rd, now)]
    /\ UNCHANGED <<now, catalog, rd, args>>

-----------------------------------------------------------------------------
(* SpecServe: serving flashcards to one user *)

\* a catalog in which two items carry the same flashcard text up to case and spaces
ServeCatalog ==
    <<Question("si-e-1", <<"Q","1">>, S1, EASY, 0),
      Question("si-e-2", <<" ","q","1">>, S1, EASY, 0),
      Question("pro-h-1", <<"Q","3">>, S3, HARD, 1)>>

\* the user of InSessionReviewData after a wrong answer to "pro-h-1" at minute 0
AnsweredReviewData ==
    Put(InSessionReviewData, "pro-h-1",
        Review(HARD, Some(FALSE), Some(toISOString(WRONG_MINUTES * Minute)), 1))

\* a user in a session without a batch who was served "si-e-1" and answered it wrongly
\* at minute 0
ReturningReviewData ==
    [k \in {"sessionSubtopics", "shownFlashcards", "dailyShownFlashcards", "si-e-1"} |->
        IF k = "sessionSubtopics" THEN Arr(<<S1, S3>>)
        ELSE IF k = "si-e-1"
             THEN Review(EASY, Some(FALSE), Some(toISOString(WRONG_MINUTES * Minute)), 1)
        ELSE Arr(<<"si-e-1">>)]

\* a user whose session was made by createNewBatch and who answered "pro-h-1" wrongly at
\* minute 0 without having been served it
UnseenReviewData ==
    [k \in {"sessionSubtopics", "shownFlashcards", "pro-h-1"} |->
        IF k = "sessionSubtopics" THEN Arr(<<S1, S3>>)
        ELSE IF k = "pro-h-1"
             THEN Review(HARD, Some(FALSE), Some(toISOString(WRONG_MINUTES * Minute)), 1)
        ELSE Arr(<<>>)]

\* a user who answered "si-e-1" and "si-e-2" correctly at minute 0, whose session was
\* then made by createNewBatch from the one new flashcard left, and who was served it
NarrowSessionReviewData ==
    [k \in {"sessionSubtopics", "shownFlashcards", "dailyShownFlashcards",
            "si-e-1", "si-e-2"} |->
        IF k = "sessionSubtopics" THEN Arr(<<S3>>)
        ELSE IF k \in {"si-e-1", "si-e-2"}
             THEN Review(EASY, Some(TRUE), Some(toISOString(EASY_MINUTES * Minute)), 1)
        ELSE Arr(<<"pro-h-1">>)]

InitServe ==
    /\ now = 4 * Minute
    /\ catalog = ServeCatalog
    /\ rd \in {EmptyReviewData, InSessionReviewData, AnsweredReviewData,
               ReturningReviewData, UnseenReviewData, NarrowSessionReviewData}
    /\ args = NoArgs
    /\ resp = [op |-> "none", seq |-> 0]

NextServe ==
    \/ SessionTick
    \/ GetRandomFlashcardJson
    \/ GetBatch
    \/ CompleteBatch
    \/ CheckNewBatch
    \/ StartSession
    \/ CreateNewBatch
    \/ ResetShownFlashcards

SpecServe == InitServe /\ [][NextServe]_vars

\* a batch is active: currentBatch is not empty and the serving index is a position of it
BatchActive ==
    /\ getCurrentBatchFlashcards(rd) # <<>>
    /\ "num" \in DOMAIN Lookup(rd, "currentBatchIndex")
    /\ Lookup(rd, "currentBatchIndex").num < Len(getCurrentBatchFlashcards(rd))

\* the item is reviewable: the catalog has it, with a flashcard text
Reviewable(id) ==
    \E i \in 1..Len(catalog) : catalog[i].id = id /\ trim(catalog[i].flashcard) # <<>>

\* the content of a reviewable item, as the serving path compares it
ServeKey(id) == collapseSpaces(ContentKey(id))

\* the ids in shownThisSession or shownToday
ShownIds == Range(ArrayAt(rd, "shownFlashcards")) \cup Range(ArrayAt(rd, "dailyShownFlashcards"))

\* the item was shown, by id or by content
ShownBefore(id) ==
    \/ id \in ShownIds
    \/ \E other \in ShownIds : Reviewable(other) /\ ServeKey(other) = ServeKey(id)

\* the positions (from 1) of the current batch at or after the serving index whose item
\* serveNext may return
Admissible ==
    LET currentBatch == getCurrentBatchFlashcards(rd) IN
    {p \in 1..Len(currentBatch) :
        /\ p > Lookup(rd, "currentBatchIndex").num
        /\ Reviewable(currentBatch[p])
        /\ ~ShownBefore(currentBatch[p])
        /\ \A q \in 1..(p - 1) :
              Reviewable(currentBatch[q]) => ServeKey(currentBatch[q]) # ServeKey(currentBatch[p])}

ServeCall == resp'.seq = resp.seq + 1 /\ resp'.op = "getRandomFlashcardJson"

C14_Step ==
    (ServeCall /\ BatchActive /\ Admissible # {}) =>
        LET currentBatch == getCurrentBatchFlashcards(rd)
            first == CHOOSE p \in Admissible : \A q \in Admissible : p <= q
        IN  /\ resp'.status = 200
            /\ resp'.questionId = currentBatch[first]
            /\ Lookup(rd', "currentBatchIndex") = Num(first)
            /\ getCurrentBatchFlashcards(rd') = currentBatch
            /\ currentBatch[first] \in Range(ArrayAt(rd', "shownFlashcards"))
            /\ currentBatch[first] \in Range(ArrayAt(rd', "dailyShownFlashcards"))

\* C14: during an active batch serveNext returns the first item at or after the serving
\* index that was not shown in this session or today, by id or by content, and is not a
\* content-duplicate of an earlier item of the batch; the serving index becomes one past
\* the returned position and the returned id joins both shown sets.
C14_ServeFromBatch == [][C14_Step]_vars

\* serveNext has skipped "si-e-2", whose content was shown, and returned the item after it
C14_Witness ==
    /\ resp.op = "getRandomFlashcardJson"
    /\ resp.kind = "batch"
    /\ Len(getCurrentBatchFlashcards(rd)) >= 2
    /\ getCurrentBatchFlashcards(rd)[1] = "si-e-2"
    /\ resp.questionId = getCurrentBatchFlashcards(rd)[2]
    /\ Lookup(rd, "currentBatchIndex") = Num(2)
    /\ "si-e-2" \notin ShownIds

\* the reviewable items that are due: they have a review instant at or before now
DueReviewable ==
    {catalog[i].id :
        i \in {j \in 1..Len(catalog) :
                  /\ Reviewable(catalog[j].id)
                  /\ hasNextReviewDate(Lookup(rd, catalog[j].id))
                  /\ Lookup(rd, catalog[j].id).nextReviewDate[1].iso <= now}}

NoBatch == getCurrentBatchFlashcards(rd) = <<>>

C15_Step ==
    (ServeCall /\ NoBatch /\ DueReviewable # {}) =>
        /\ resp'.status = 200
        /\ resp'.questionId \in DueReviewable

\* C15: when no batch is active and a reviewable item is due, serveNext returns a due
\* item, also when every due item was already shown in this session or today.
C15_DueBypass == [][C15_Step]_vars

\* the same with a due item that was not shown, neither by id nor by content
C15_UnshownStep ==
    (ServeCall /\ NoBatch /\ \E id \in DueReviewable : ~ShownBefore(id)) =>
        /\ resp'.status = 200
        /\ resp'.questionId \in DueReviewable
C15_DueUnshown == [][C15_UnshownStep]_vars

\* serveNext has returned a due item that had not been shown
C15_UnshownServed ==
    /\ resp.op = "getRandomFlashcardJson"
    /\ resp.kind = "due"

C16_Step ==
    (ServeCall /\ NoBatch /\ CooldownRunning /\ DueReviewable # {}) =>
        /\ resp'.status # 429
        /\ resp'.questionId \in DueReviewable

\* C16: due items are never blocked by the cooldown: with a cooldown running, no batch
\* active and a reviewable item due, serveNext returns a due item and not the cooldown
\* error.
C16_DueNotBlocked == [][C16_Step]_vars

\* the step is a startSession call with forceNew during a running cooldown
C17_ForcedInCooldown ==
    /\ resp'.seq = resp.seq + 1
    /\ resp'.op = "startSession"
    /\ resp'.forceNew
    /\ CooldownRunning

C17_Step ==
    C17_ForcedInCooldown =>
        /\ resp'.status = 429
        /\ resp'.canStart = FALSE
        /\ resp'.remainingSeconds > 0
        /\ resp'.remainingSeconds = CooldownSecondsLeft
        /\ \A k \in {"sessionSubtopics", "shownFlashcards", "currentBatchFlashcards",
                     "currentBatchIndex", "batchCompletionTime"} :
              Lookup(rd', k) = Lookup(rd, k)

\* C17: startSession with forceNew during a running cooldown is rejected with
\* canStart = false and a positive remainingSeconds, and leaves the session subtopics,
\* the session's shown set, the current batch and the cooldown anchor unchanged.
C17_ForceRejected == [][C17_Step]_vars

\* a forced start of a user in a session was rejected during the cooldown
C17_Witness ==
    /\ resp.op = "startSession"
    /\ resp.status = 429
    /\ resp.forceNew
    /\ resp.remainingSeconds > 0
    /\ getSessionSubtopics(rd) # <<>>
    /\ CooldownRunning

\* the step is an accepted submitAnswer
C18_Accepted ==
    /\ resp'.seq = resp.seq + 1
    /\ resp'.op = "submitAnswer"
    /\ resp'.status = 200

\* timesReviewed of an item, 0 without a record
TimesReviewedOf(reviewData, id) ==
    IF isReview(Lookup(reviewData, id)) THEN Lookup(reviewData, id).timesReviewed ELSE 0

\* the record of the answered item after the step
C18_Recorded ==
    LET questionId == resp'.questionId
        review == Lookup(rd', questionId)
    IN  /\ isReview(review)
        /\ review.lastAnswerCorrect = Some(resp'.correct)
        /\ review.nextReviewDate =
               Some(toISOString(calculateNextReviewDate(resp'.correct, review.difficulty, now)))
        /\ review.timesReviewed = TimesReviewedOf(rd, questionId) + 1

C18_Step == C18_Accepted => C18_Recorded

\* C18: each accepted recordAnswer sets the item's nextReviewDate to the scheduler's
\* result, lastAnswerCorrect to wasCorrect and increases timesReviewed by exactly 1 (to 1
\* without a record), for every combination of request fields, including a
\* flashcardQuestionId equal to questionId.
C18_AnswerRecorded == [][C18_Step]_vars

\* the same for the requests whose flashcardQuestionId is not the questionId
C18_DistinctStep == (C18_Accepted /\ resp'.flashcardQuestionId # resp'.questionId) => C18_Recorded
C18_DistinctIds == [][C18_DistinctStep]_vars

\* the step is an accepted submitRating for an item of the catalog
C19_Rated ==
    /\ resp'.seq = resp.seq + 1
    /\ resp'.op = "submitRating"
    /\ resp'.status = 200
    /\ resp'.questionId \in CatalogIds

\* the interval of a self-rated difficulty, in minutes
C19_Interval(difficultyLevel) ==
    IF toLowerCase(difficultyLevel) = EASY THEN EASY_MINUTES
    ELSE IF toLowerCase(difficultyLevel) = MEDIUM THEN MEDIUM_MINUTES
    ELSE HARD_MINUTES

C19_Step ==
    C19_Rated =>
        LET review == Lookup(rd', resp'.questionId) IN
        /\ isReview(review)
        /\ review.nextReviewDate =
               Some(toISOString(now + C19_Interval(resp'.difficulty) * Minute))
        /\ review.timesReviewed = TimesReviewedOf(rd, resp'.questionId)

\* C19: recordRating sets the item's nextReviewDate to now + interval(self-rated
\* difficulty), as after a correct answer, and does not change timesReviewed: 0 for an
\* item without a record, and still 0 after any number of ratings until an answer is
\* recorded.
C19_RatingKeepsCount == [][C19_Step]_vars

\* the second of two requests has rated "si-e-1", which has never been answered
C19_Witness ==
    /\ resp.op = "submitRating"
    /\ resp.seq = 2
    /\ resp.status = 200
    /\ resp.questionId = "si-e-1"
    /\ isReview(Lookup(rd, "si-e-1"))
    /\ Lookup(rd, "si-e-1").timesReviewed = 0
    /\ Lookup(rd, "si-e-1").lastAnswerCorrect = Null
    /\ "pro-h-1" \notin DOMAIN rd
    /\ Lookup(rd, "currentBatchIndex") = Num(1)

\* some item was answered wrongly and its review instant is at or before instant t
WrongAndDue(t) ==
    \E id \in DOMAIN rd :
        /\ isReview(rd[id])
        /\ rd[id].lastAnswerCorrect = Some(FALSE)
        /\ rd[id].nextReviewDate # Null
        /\ rd[id].nextReviewDate[1].iso <= t

\* C20: checkNewBatch reports available = true whenever some item with
\* lastAnswerCorrect = false has nextReviewDate <= now, also when a cooldown anchor is set
\* and its 5-minute window has not elapsed.
C20_AvailableWhenWrongDue ==
    (resp.op = "checkNewBatch" /\ WrongAndDue(resp.at)) => resp.available

\* the same for the users without a cooldown anchor
C20_WithoutAnchor ==
    (/\ resp.op = "checkNewBatch"
     /\ WrongAndDue(resp.at)
     /\ getBatchCompletionTime(rd) = Null) => resp.available

\* checkNewBatch has answered a user without an anchor who has a wrong answer that is due
C20_WithoutAnchorReached ==
    /\ resp.op = "checkNewBatch"
    /\ WrongAndDue(resp.at)
    /\ getBatchCompletionTime(rd) = Null
    /\ resp.available

\* the step is a recordRating or recordAnswer call
C21_Call ==
    /\ resp'.seq = resp.seq + 1
    /\ resp'.op \in {"submitRating", "submitAnswer"}

\* a call that is answered with an error leaves the record as it was
C21_RejectedStep == (C21_Call /\ resp'.status # 200) => rd' = rd
C21_RejectedUnchanged == [][C21_RejectedStep]_vars

\* a recordAnswer call for an id that is not in the catalog is an error
C21_AnswerStep ==
    (C21_Call /\ resp'.op = "submitAnswer" /\ resp'.questionId \notin CatalogIds) =>
        resp'.status = 404 /\ rd' = rd
C21_AnswerUnknownId == [][C21_AnswerStep]_vars

C21_Step ==
    C21_Call =>
        /\ resp'.status # 200 => rd' = rd
        /\ resp'.questionId \notin CatalogIds => (resp'.status # 200 /\ rd' = rd)

\* C21: a recordRating or recordAnswer call that fails validation or names an item id
\* that is not in the catalog returns an error and leaves the user's record unchanged.
C21_InvalidLeavesRecord == [][C21_Step]_vars

-----------------------------------------------------------------------------
(* SpecStore: startSession and completeBatch over a store whose writes can fail *)

\* a write that never reaches the file
saveUsers_lost(stored, usersData, ok) == stored

\* saveUsers: the file holds usersData when the write succeeds, and what it held before
\* when it fails
saveUsers(stored, usersData, ok) == IF ok THEN usersData ELSE stored

\* the writes of startSession: the batch (its result is not looked at), then the session
startSessionWrites(cat, reviewData, batch, subtopics, okBatch, okSession) ==
    LET filteredBatchIds == filteredBatchIdsOf(cat, reviewData, batch.flashcardIds)
        afterBatch ==
            IF batch.flashcardIds = <<>> THEN reviewData
            ELSE IF filteredBatchIds # <<>>
                 THEN saveUsers(reviewData,
                                setCurrentBatchFlashcards(reviewData, filteredBatchIds), okBatch)
            ELSE saveUsers(reviewData, clearCurrentBatch(reviewData), okBatch)
    IN  [reviewData |-> saveUsers(afterBatch, startNewSession(afterBatch, subtopics), okSession),
         success |-> okSession,
         failed |-> (~okSession) \/ (batch.flashcardIds # <<>> /\ ~okBatch)]

\* the writes of completeBatch: the history, the cleared batch (their results are only
\* logged), then the completion time
completeBatchWrites(reviewData, timestamp, okAdd, okClear, okTime) ==
    LET currentBatchFlashcards == getCurrentBatchFlashcards(reviewData)
        afterAdd ==
            IF currentBatchFlashcards # <<>>
            THEN saveUsers(reviewData,
                           addToPreviousBatches(reviewData, currentBatchFlashcards), okAdd)
            ELSE reviewData
        afterClear ==
            IF currentBatchFlashcards # <<>>
            THEN saveUsers(afterAdd, clearCurrentBatch(afterAdd), okClear)
            ELSE afterAdd
    IN  [reviewData |-> saveUsers(afterClear, setBatchCompletionTime(afterClear, timestamp),
                                  okTime),
         success |-> okTime,
         failed |-> (~okTime) \/ (currentBatchFlashcards # <<>> /\ ~(okAdd /\ okClear))]

StartSessionStore ==
    /\ RequestArrives
    /\ \E forceNew \in BOOLEAN, okBatch \in BOOLEAN, okSession \in BOOLEAN :
          IF forceNew /\ cooldownActive(rd, now)
          THEN /\ resp' = [op |-> "startSession", seq |-> resp.seq + 1, at |-> now,
                           status |-> 429, failed |-> FALSE]
               /\ rd' = rd
          ELSE IF ~forceNew /\ getSessionSubtopics(rd) # <<>>
          THEN /\ resp' = [op |-> "startSession", seq |-> resp.seq + 1, at |-> now,
                           status |-> 200, failed |-> FALSE]
               /\ rd' = rd
          ELSE \E selectedNew \in
                   Shuffles(newFlashcardsOf(catalog, rd, now, SessionBatchSize),
                            remainingSlotsOf(composeDue(catalog, rd, now), SessionBatchSize)) :
                 LET batch == composeBatch(catalog, rd, now, SessionBatchSize, selectedNew) IN
                 IF batch.subtopics = <<>> /\ getAllUniqueSubtopics(catalog) = <<>>
                 THEN /\ resp' = [op |-> "startSession", seq |-> resp.seq + 1, at |-> now,
                                  status |-> 404, failed |-> FALSE]
                      /\ rd' = rd
                 ELSE \E subtopics \in
                          (IF batch.subtopics = <<>>
                           THEN pickRandomSubtopics(catalog, SessionBatchSize)
                           ELSE {batch.subtopics}) :
                        LET written == startSessionWrites(catalog, rd, batch, subtopics,
                                                          okBatch, okSession) IN
                        /\ rd' = written.reviewData
                        /\ resp' = [op |-> "startSession", seq |-> resp.seq + 1, at |-> now,
                                    status |-> IF written.success THEN 200 ELSE 500,
                                    failed |-> written.failed]
    /\ UNCHANGED <<now, catalog, args>>

CompleteBatchStore ==
    /\ RequestArrives
    /\ \E timestamp \in {0} \cup {now + d : d \in TimestampOffsets},
          okAdd \in BOOLEAN, okClear \in BOOLEAN, okTime \in BOOLEAN :
          IF timestamp = 0
          THEN /\ resp' = [op |-> "completeBatch", seq |-> resp.seq + 1, at |-> now,
                           status |-> 400, failed |-> FALSE]
               /\ rd' = rd
          ELSE IF cooldownActive(rd, now)
          THEN /\ resp' = [op |-> "completeBatch", seq |-> resp.seq + 1, at |-> now,
                           status |-> 429, failed |-> FALSE]
               /\ rd' = rd
          ELSE IF timestampRejected(timestamp, now)
          THEN /\ resp' = [op |-> "completeBatch", seq |-> resp.seq + 1, at |-> now,
                           status |-> 400, failed |-> FALSE]
               /\ rd' = rd
          ELSE LET written == completeBatchWrites(rd, timestamp, okAdd, okClear, okTime) IN
               /\ rd' = written.reviewData
               /\ resp' = [op |-> "completeBatch", seq |-> resp.seq + 1, at |-> now,
                           status |-> IF written.success THEN 200 ELSE 500,
                           failed |-> written.failed]
    /\ UNCHANGED <<now, catalog, args>>

InitStore ==
    /\ now = 2 * Minute
    /\ catalog = ReviewCatalog
    /\ rd \in {EmptyReviewData, InSessionReviewData}
    /\ args = NoArgs
    /\ resp = [op |-> "none", seq |-> 0]

NextStore ==
    \/ SessionTick
    \/ StartSessionStore
    \/ CompleteBatchStore

SpecStore == InitStore /\ [][NextStore]_vars

\* the step is a startSession or completeBatch call during which a store write failed
C22_WriteFailed ==
    /\ resp'.seq = resp.seq + 1
    /\ resp'.op \in {"startSession", "completeBatch"}
    /\ resp'.failed

C22_Step == C22_WriteFailed => (resp'.status = 500 /\ rd' = rd)

\* C22: if a store write fails during startSession or completeBatch, the operation
\* reports failure and the persisted record equals the record before the operation.
C22_NoPartialWrite == [][C22_Step]_vars

-----------------------------------------------------------------------------
(* SpecUsers: two users over the one users file.  In this specification rd is the
   content of the file, userId -> reviewData, args holds for each user the operation in
   flight with the copy of the file it has loaded, and resp.expected is the record each
   user gets when only that user's operations run *)

UserIds == {"userA", "userB"}
MaxUserOps == 2

\* the read-modify-write operations a user sends: a rating, and a flashcard marked as
\* shown
UserOps ==
    {[name |-> "submitRating", questionId |-> q, rating |-> r] :
        q \in {"si-e-1", "pro-h-1"}, r \in {1, 5}}
    \cup {[name |-> "markFlashcardAsShown", questionId |-> q, rating |-> 0] :
        q \in {"si-e-1", "pro-h-1"}}

\* what the operation makes of the record of its user; a rating of an item that was never
\* answered stores timesReviewed 0 whatever record the handler has read before
applyUserOp(reviewData, operation, t) ==
    IF operation.name = "submitRating"
    THEN submitRating(reviewData, operation.questionId, operation.rating, t)
    ELSE markFlashcardAsShown(reviewData, operation.questionId)

InitUsers ==
    /\ now = 0
    /\ catalog = ReviewCatalog
    /\ rd = [u \in UserIds |-> EmptyReviewData]
    /\ args = [u \in UserIds |-> [pc |-> "idle", done |-> 0]]
    /\ resp = [op |-> "none", seq |-> 0,
               expected |-> [u \in UserIds |-> EmptyReviewData]]

\* loadUsers in an operation of user u: the whole file is read
LoadUsers ==
    \E u \in UserIds, operation \in UserOps :
        /\ args[u].pc = "idle"
        /\ args[u].done < MaxUserOps
        /\ args' = [args EXCEPT ![u] = [pc |-> "loaded", done |-> args[u].done,
                                        users |-> rd, operation |-> operation]]
        /\ resp' = [op |-> "loadUsers", seq |-> resp.seq + 1,
                    expected |-> [resp.expected EXCEPT
                                     ![u] = applyUserOp(@, operation, now)]]
        /\ UNCHANGED <<now, catalog, rd>>

\* saveUsers in the operation of user u: the loaded copy, with the record of u changed,
\* replaces the whole file
SaveUsers ==
    \E u \in UserIds :
        /\ args[u].pc = "loaded"
        /\ rd' = [args[u].users EXCEPT ![u] = applyUserOp(@, args[u].operation, now)]
        /\ args' = [args EXCEPT ![u] = [pc |-> "idle", done |-> args[u].done + 1]]
        /\ resp' = [op |-> "saveUsers", seq |-> resp.seq, user |-> u,
                    expected |-> resp.expected]
        /\ UNCHANGED <<now, catalog>>

NextUsers == LoadUsers \/ SaveUsers

SpecUsers == InitUsers /\ [][NextUsers]_vars

\* a write of one user leaves the record of the other user as the file held it
C23_Step ==
    resp'.op = "saveUsers" =>
        \A other \in UserIds \ {resp'.user} : rd'[other] = rd[other]

\* no operation is in flight and every user has the record of their own operations
C23_Quiescent ==
    (\A u \in UserIds : args[u].pc = "idle") =>
        \A u \in UserIds : rd[u] = resp.expected[u]

\* C23: different users are independent: an operation for user A never changes user B's
\* record, also when their operations interleave at the file's read and write steps, and
\* afterwards each user's record is the one produced by that user's operations alone.
C23_UsersIndependent == []C23_Quiescent /\ [][C23_Step]_vars

\* C24: the subtopic scheduler is the same function as the item scheduler: for every
\* (wasCorrect, difficulty) and the same instant calculateSubtopicNextReviewDate returns
\* the timestamp calculateNextReviewDate returns.
C24_SameScheduler ==
    resp.op = "calculateSubtopicNextReviewDate" =>
        resp.date = calculateNextReviewDate(args.isCorrect, args.difficulty, now)

\* the subtopic scheduler was asked for a correct answer of difficulty "Hard"
C24_Witness ==
    /\ resp.op = "calculateSubtopicNextReviewDate"
    /\ args.isCorrect = TRUE
    /\ args.difficulty = <<"H","a","r","d">>
    /\ resp.date = now + HARD_MINUTES * 60 * 1000

\* the step keeps the anchor, the session and the batch: the batch may only be emptied
C25_Kept ==
    /\ Lookup(rd', "batchCompletionTime") = Lookup(rd, "batchCompletionTime")
    /\ Lookup(rd', "sessionSubtopics") = Lookup(rd, "sessionSubtopics")
    /\ getCurrentBatchFlashcards(rd') \in {getCurrentBatchFlashcards(rd), <<>>}
    /\ ~getUserCooldown(rd', now).canStart

C25_Step == (CooldownRunning /\ resp'.seq = resp.seq + 1) => C25_Kept

\* C25: once completeBatch has been accepted with anchor a, no operation of the user
\* clears or moves the cooldown anchor or starts a new session or batch before
\* a + 5 minutes; getCooldown reports canStart = false throughout that window.
C25_CooldownHolds == [][C25_Step]_vars

\* the same for the operations other than createNewBatch of a user who has a session
C25_OtherStep ==
    (/\ CooldownRunning
     /\ resp'.seq = resp.seq + 1
     /\ resp'.op # "createNewBatch"
     /\ getSessionSubtopics(rd) # <<>>) => C25_Kept
C25_OtherOperations == [][C25_OtherStep]_vars

\* a current batch exists and its serving index has reached its length
BatchExhausted ==
    /\ getCurrentBatchFlashcards(rd) # <<>>
    /\ Lookup(rd, "currentBatchIndex") = Num(Len(getCurrentBatchFlashcards(rd)))

\* the step sets the cooldown anchor
C26_AnchorSet ==
    /\ Lookup(rd', "batchCompletionTime") # Lookup(rd, "batchCompletionTime")
    /\ getBatchCompletionTime(rd') # Null

C26_Step == C26_AnchorSet => (resp'.op = "completeBatch" /\ BatchExhausted)

\* C26: the per-user state moves along NoSession -> SessionActive -> BatchActive ->
\* BatchExhausted -> CooldownActive -> SessionActive(new): the cooldown is entered only
\* from BatchExhausted, completeBatch sets the anchor only when a current batch exists
\* and its serving index has reached its length.
C26_CooldownFromExhausted == [][C26_Step]_vars

\* only completeBatch sets the anchor
C26_OnlyCompleteStep == C26_AnchorSet => resp'.op = "completeBatch"
C26_OnlyCompleteBatch == [][C26_OnlyCompleteStep]_vars

\* completeBatch was accepted for a batch that had been served to its end
C26_ExhaustedCompleted ==
    /\ resp.op = "completeBatch"
    /\ resp.status = 200
    /\ getPreviousBatchFlashcards(rd) = <<"pro-h-1", "si-e-1">>
    /\ "si-e-1" \in Range(getShownFlashcards(rd))

C27_Step ==
    (ServeCall /\ BatchExhausted) =>
        /\ resp'.kind # "allCompleted"
        /\ DueReviewable # {} => resp'.questionId \in DueReviewable

\* C27: a stored batch whose serving index has reached its length is not an active
\* batch: serveNext then evaluates the non-batch priorities in order, so it returns a due
\* item if one exists, and does not stop at the exhausted batch.
C27_ExhaustedFallsThrough == [][C27_Step]_vars

\* a batch whose remaining entries were all shown is given up and the call goes on to
\* the other priorities
C27_ScanStep ==
    (ServeCall /\ BatchActive /\ Admissible = {}) =>
        /\ resp'.kind \notin {"allCompleted", "batch"}
        /\ getCurrentBatchFlashcards(rd') = <<>>
C27_ScanFallsThrough == [][C27_ScanStep]_vars

\* the serve call answers with the cooldown rejection and keeps the session's lists
C28_Rejected ==
    /\ resp'.status = 429
    /\ resp'.canStart = FALSE
    /\ resp'.remainingSeconds > 0
    /\ getSessionSubtopics(rd') = getSessionSubtopics(rd)
    /\ getShownFlashcards(rd') = getShownFlashcards(rd)
    /\ getDailyShownFlashcards(rd') = getDailyShownFlashcards(rd)

C28_DueServed == resp'.status = 200 /\ resp'.questionId \in DueReviewable

C28_Step ==
    (ServeCall /\ cooldownActive(rd, now) /\ ~BatchActive) => (C28_DueServed \/ C28_Rejected)

\* C28: while the cooldown is active and no batch is active, serveNext never returns an
\* item that is not due: when no due item is served it rejects with canStart = false and
\* remainingSeconds > 0 and leaves sessionSubtopics, shownThisSession and shownToday
\* unchanged.
C28_CooldownServesOnlyDue == [][C28_Step]_vars

\* the rejection has happened during a running cooldown
C28_Witness ==
    /\ resp.op = "getRandomFlashcardJson"
    /\ resp.status = 429
    /\ resp.remainingSeconds > 0
    /\ cooldownActive(rd, now)

\* a due item has been served during a running cooldown
C28_DueWitness ==
    /\ resp.op = "getRandomFlashcardJson"
    /\ resp.kind = "due"
    /\ cooldownActive(rd, resp.at)

\* the subtopics of the catalog entries with the given id
SubTopicsOfId(id) == {catalog[i].subTopic : i \in {j \in 1..Len(catalog) : catalog[j].id = id}}

\* the serve call went down the session path and returned an item
C29_SessionServe == ServeCall /\ resp'.kind = "random"

C29_Step ==
    C29_SessionServe => SubTopicsOfId(resp'.questionId) \subseteq Range(getSessionSubtopics(rd))

\* C29: when serveNext reaches the session path (no active batch, no due item served, no
\* cooldown, a session exists), the subtopic of the returned item is one of
\* sessionSubtopics; a session subtopic is skipped only if it is completed, not due and
\* has no un-shown item left.
C29_ServesSessionSubtopic == [][C29_Step]_vars

\* the session path returns only reviewable catalog items and needs a session
C29_CatalogStep ==
    C29_SessionServe =>
        /\ Reviewable(resp'.questionId)
        /\ getSessionSubtopics(rd) # <<>>
        /\ resp'.status = 200
C29_ServesCatalogItem == [][C29_CatalogStep]_vars

\* the ids in shownToday
ShownTodayIds == Range(ArrayAt(rd, "dailyShownFlashcards"))

\* the item is in shownToday, by id or by content
ShownToday(id) ==
    \/ id \in ShownTodayIds
    \/ \E other \in ShownTodayIds : Reviewable(other) /\ ServeKey(other) = ServeKey(id)

NotShownToday(id) == ~ShownToday(id)

\* startSession was accepted and started a new session
C30_NewSession ==
    /\ resp'.seq = resp.seq + 1
    /\ resp'.op = "startSession"
    /\ resp'.status = 200
    /\ resp'.isNewSession

\* the stored batch is what is left of some batch the composition can yield
C30_Stored ==
    \E selectedNew \in Shuffles(newFlashcardsOf(catalog, rd, now, SessionBatchSize), remainingSlotsOf(composeDue(catalog, rd, now), SessionBatchSize)) :
        LET composed == composeBatch(catalog, rd, now, SessionBatchSize, selectedNew).flashcardIds
            kept == SelectSeq(composed, NotShownToday)
        IN  IF kept # <<>>
            THEN /\ getCurrentBatchFlashcards(rd') = kept
                 /\ Lookup(rd', "currentBatchIndex") = Num(0)
            ELSE getCurrentBatchFlashcards(rd') = <<>>

C30_Step == C30_NewSession => C30_Stored

\* C30: after an accepted new-session start the stored currentBatch is the composed
\* batch minus every item whose id or content is in shownToday, with servingIndex 0; if
\* the filtered list is empty no batch is active afterwards: neither an empty batch nor a
\* leftover batch of an earlier session is stored.
C30_FilteredBatchStored == [][C30_Step]_vars

\* a new session has been started with a filtered batch that lost an item shown today
C30_Witness ==
    /\ resp.op = "startSession"
    /\ resp.status = 200
    /\ resp.isNewSession
    /\ getCurrentBatchFlashcards(rd) # <<>>
    /\ Lookup(rd, "currentBatchIndex") = Num(0)
    /\ \E id \in ShownTodayIds : Reviewable(id) /\ id \notin Range(getCurrentBatchFlashcards(rd))

\* a new session has been started whose composed batch was shown today entirely
C30_EmptiedWitness ==
    /\ resp.op = "startSession"
    /\ resp.status = 200
    /\ resp.isNewSession
    /\ Lookup(rd, "currentBatchFlashcards") = Arr(<<>>)
    /\ resp.sessionSubtopics = <<S3>>

\* every batch the composition can yield has an item
C30_Composed ==
    \A selectedNew \in Shuffles(newFlashcardsOf(catalog, rd, now, SessionBatchSize), remainingSlotsOf(composeDue(catalog, rd, now), SessionBatchSize)) :
        composeBatch(catalog, rd, now, SessionBatchSize, selectedNew).flashcardIds # <<>>

\* when the composed batch has an item, the stored batch is the filtered batch, or none
C30_ComposedStep == (C30_NewSession /\ C30_Composed) => C30_Stored
C30_ComposedBatchStored == [][C30_ComposedStep]_vars

\* the fields of the record a session start may write
SessionFields == {"sessionSubtopics", "shownFlashcards", "batchCompletionTime", "currentBatchFlashcards", "currentBatchIndex"}

C31_Step ==
    C30_NewSession =>
        /\ getSessionSubtopics(rd') = resp'.sessionSubtopics
        /\ resp'.sessionSubtopics # <<>>
        /\ Len(resp'.sessionSubtopics) <= SessionBatchSize
        /\ Lookup(rd', "shownFlashcards") = Arr(<<>>)
        /\ getBatchCompletionTime(rd') = Null
        /\ \A k \in (DOMAIN rd \cup DOMAIN rd') \ SessionFields : Lookup(rd', k) = Lookup(rd, k)

NewPoolIds ==
    LET pool == newFlashcardsOf(catalog, rd, now, args.batchSize) IN
    {pool[i].id : i \in 1..Len(pool)}

\* a reviewable item outside the exclusion set that Priority 1 has not admitted, by id
\* or by content
FreePositions ==
    LET due == composeDue(catalog, rd, now) IN
    {i \in 1..Len(catalog) :
        /\ catalog[i].flashcard # <<>>
        /\ catalog[i].id \notin Range(rd["previousBatchFlashcards"].arr)
        /\ catalog[i].id \notin Range(rd["currentBatchFlashcards"].arr)
        /\ catalog[i].id \notin due.selectedFlashcardIds
        /\ ContentKey(catalog[i].id) \notin due.selectedFlashcardTexts}

\* composeBatch has run with a slot left for Priority 2
C32_Called ==
    /\ resp.op = "composeBatch"
    /\ remainingSlotsOf(composeDue(catalog, rd, now), args.batchSize) > 0

\* C32: composeBatch treats as new, and may admit in Priority 2, every reviewable
\* non-excluded item that has no record or whose record has timesReviewed = 0, such as an
\* item that was rated but never answered and is not yet due.
C32_NeverReviewedIsNew ==
    C32_Called =>
        \A i \in FreePositions :
            (rd[catalog[i].id] = Undefined \/ rd[catalog[i].id].timesReviewed = 0)
                => catalog[i].id \in NewPoolIds

\* the pool is the free items without any record
C32_NoRecordIsNew ==
    C32_Called => NewPoolIds = {catalog[i].id : i \in {j \in FreePositions : rd[catalog[j].id] = Undefined}}

\* a free item without record has been admitted while a rated one was left out
C32_NoRecordAdmitted ==
    /\ C32_Called
    /\ \E i \in FreePositions : rd[catalog[i].id] = Undefined /\ catalog[i].id \in Range(resp.batch.flashcardIds)
    /\ \E i \in FreePositions : rd[catalog[i].id] # Undefined /\ rd[catalog[i].id].timesReviewed = 0

\* previousBatches and currentBatch, as a set of ids
Exclusion == Range(rd["previousBatchFlashcards"].arr) \cup Range(rd["currentBatchFlashcards"].arr)

DueIdSet == {catalog[p].id : p \in DuePositions}

\* the first n entries of a sequence
FirstOf(seq, n) == SubSeq(seq, 1, IF n < Len(seq) THEN n ELSE Len(seq))

\* C33: the exclusion set previousBatches \cup currentBatch applies to new items only:
\* no item that composeBatch admits as new is in that set, while every due reviewable
\* item is admissible even when it is in that set (the due part of the result is the
\* due items in catalog order, one per contentKey, up to batchSize, whatever the set).
C33_ExclusionForNewOnly ==
    resp.op = "composeBatch" =>
        LET ids == resp.batch.flashcardIds
            dueFirst == FirstOf(IdsAt(FirstDuePositions, 1), args.batchSize)
        IN  /\ \A i \in 1..Len(ids) : ids[i] \notin DueIdSet => ids[i] \notin Exclusion
            /\ Len(ids) >= Len(dueFirst)
            /\ SubSeq(ids, 1, Len(dueFirst)) = dueFirst

\* a due item of the exclusion set has been admitted, and a new item has been admitted
\* while an item without record was kept out by the exclusion set
C33_Witness ==
    /\ resp.op = "composeBatch"
    /\ \E id \in Range(resp.batch.flashcardIds) : id \in DueIdSet /\ id \in Exclusion
    /\ \E id \in Range(resp.batch.flashcardIds) : id \notin DueIdSet
    /\ \E i \in 1..Len(catalog) :
          /\ catalog[i].flashcard # <<>>
          /\ rd[catalog[i].id] = Undefined
          /\ catalog[i].id \in Exclusion

\* C34: composeBatch returns at most batchSize ids and at most batchSize subtopics; when
\* more than batchSize due reviewable items with distinct content exist, the result is
\* exactly the first batchSize of them in catalog order and holds no new item.
C34_Capped ==
    resp.op = "composeBatch" =>
        /\ Len(resp.batch.flashcardIds) <= args.batchSize
        /\ Len(resp.batch.subtopics) <= args.batchSize
        /\ Cardinality(FirstDuePositions) > args.batchSize =>
              /\ resp.batch.flashcardIds = FirstOf(IdsAt(FirstDuePositions, 1), args.batchSize)
              /\ Range(resp.batch.flashcardIds) \subseteq DueIdSet

\* more due items than the batch takes, of more subtopics than it returns, while an item
\* without record exists
C34_Witness ==
    /\ resp.op = "composeBatch"
    /\ args.batchSize = 2
    /\ Cardinality(FirstDuePositions) = 3
    /\ Len(resp.batch.flashcardIds) = 2
    /\ Len(resp.batch.subtopics) = 2
    /\ \E i \in 1..Len(catalog) : catalog[i].flashcard # <<>> /\ rd[catalog[i].id] = Undefined

\* the subtopics of the items of the returned batch
BatchSubtopics == {ItemOf(id).subTopic : id \in Range(resp.batch.flashcardIds)}

\* C35: every subtopic that composeBatch returns is the subtopic of at least one item id
\* of the returned batch, also when more than batchSize items are due.
C35_SubtopicsOfBatch ==
    resp.op = "composeBatch" => Range(resp.batch.subtopics) \subseteq BatchSubtopics

\* with no more due items than the batch takes, the returned subtopics are those of the
\* returned items
C35_WithinCap ==
    (resp.op = "composeBatch" /\ Cardinality(FirstDuePositions) <= args.batchSize) =>
        Range(resp.batch.subtopics) = BatchSubtopics

C35_WithinCapReached ==
    /\ resp.op = "composeBatch"
    /\ Cardinality(FirstDuePositions) = 2
    /\ args.batchSize = 3
    /\ Cardinality(BatchSubtopics) >= 2

\* the stored serving index is a position of the stored batch, or its length; a record
\* without the field counts as index 0
C36_InRange ==
    LET v == Lookup(rd, "currentBatchIndex") IN
    \/ v = Undefined
    \/ /\ "num" \in DOMAIN v
       /\ 0 <= v.num
       /\ v.num <= Len(getCurrentBatchFlashcards(rd))

\* the serving index as a number (0 when the field is missing or holds no number)
IndexOf(reviewData) ==
    LET v == getCurrentBatchIndex(reviewData) IN IF v = Null THEN 0 ELSE v[1]

\* the operation stored a batch: getBatch, or a new-session start
C36_BatchStored ==
    /\ resp'.seq = resp.seq + 1
    /\ resp'.status = 200
    /\ \/ resp'.op = "getBatch"
       \/ resp'.op = "startSession" /\ resp'.isNewSession
    /\ \/ getCurrentBatchFlashcards(rd') # getCurrentBatchFlashcards(rd)
       \/ IndexOf(rd') # IndexOf(rd)

C36_Step ==
    /\ C36_BatchStored => IndexOf(rd') = 0
    /\ (~C36_BatchStored /\ getCurrentBatchFlashcards(rd') = getCurrentBatchFlashcards(rd))
          => IndexOf(rd') >= IndexOf(rd)
    /\ (ServeCall /\ resp'.kind = "batch") => IndexOf(rd') > IndexOf(rd)

\* C36: in every reachable state 0 <= servingIndex <= length(currentBatch); servingIndex
\* never decreases while the same batch is current, strictly increases on every serveNext
\* that serves from the batch, and is 0 when a new batch is stored.
C36_ServingIndex == []C36_InRange /\ [][C36_Step]_vars

\* a batch has been served from beyond its first entry, up to its length
C36_Witness ==
    /\ resp.op = "getRandomFlashcardJson"
    /\ resp.kind = "batch"
    /\ getCurrentBatchFlashcards(rd) # <<>>
    /\ IndexOf(rd) = Len(getCurrentBatchFlashcards(rd))
    /\ IndexOf(rd) > 1

\* a new batch has been stored over a batch that was being served
C36_StoredWitness ==
    /\ resp.op = "getBatch"
    /\ resp.status = 200
    /\ IndexOf(rd) = 0
    /\ getCurrentBatchFlashcards(rd) # <<>>
    /\ getCurrentBatchFlashcards(rd) # <<"pro-h-1", "si-e-1">>

-----------------------------------------------------------------------------
(* SpecBatch: the serving operations over a batch with two prompts of the same content *)

\* two prompts that differ in case and inner whitespace only, which composeBatch takes
\* for different texts and the serving path for the same
BatchCatalog ==
    <<Question("si-e-1", <<"Q"," ","1">>, S1, EASY, 0),
      Question("si-e-2", <<"q"," "," ","1">>, S1, EASY, 0),
      Question("pro-h-1", <<"Q","3">>, S3, HARD, 1)>>

\* a user with a fresh batch of the three items
FreshBatchReviewData ==
    [k \in {"sessionSubtopics", "shownFlashcards", "dailyShownFlashcards",
            "currentBatchFlashcards", "currentBatchIndex"} |->
        IF k = "sessionSubtopics" THEN Arr(<<S1, S3>>)
        ELSE IF k = "currentBatchFlashcards" THEN Arr(<<"si-e-1", "si-e-2", "pro-h-1">>)
        ELSE IF k = "currentBatchIndex" THEN Num(0)
        ELSE Arr(<<>>)]

\* the same user after "si-e-1" was served, on the same day and after the day changed
\* (the list of the day is empty again)
ServedOnceReviewData(daily) ==
    [k \in DOMAIN FreshBatchReviewData |->
        IF k = "shownFlashcards" THEN Arr(<<"si-e-1">>)
        ELSE IF k = "dailyShownFlashcards" THEN Arr(daily)
        ELSE IF k = "currentBatchIndex" THEN Num(1)
        ELSE FreshBatchReviewData[k]]

\* a user in a session without a batch who has been served every item
AllShownReviewData ==
    [k \in {"sessionSubtopics", "shownFlashcards", "dailyShownFlashcards"} |->
        IF k = "sessionSubtopics" THEN Arr(<<S1, S3>>)
        ELSE Arr(<<"si-e-1", "si-e-2", "pro-h-1">>)]

InitBatch ==
    /\ now = 4 * Minute
    /\ catalog = BatchCatalog
    /\ rd \in {EmptyReviewData, FreshBatchReviewData, AllShownReviewData,
               ServedOnceReviewData(<<"si-e-1">>), ServedOnceReviewData(<<>>)}
    /\ args = NoArgs
    /\ resp = [op |-> "none", seq |-> 0]

SpecBatch == InitBatch /\ [][NextServe]_vars

\* the normalized content of a catalog item
NormalizedOf(id) == collapseSpaces(toLowerCase(trim(ItemOf(id).flashcard)))

C37_Step ==
    (ServeCall /\ resp'.kind = "batch") =>
        LET currentBatch == getCurrentBatchFlashcards(rd) IN
        \A j \in 1..IndexOf(rd) :
            /\ currentBatch[j] # resp'.questionId
            /\ NormalizedOf(currentBatch[j]) # NormalizedOf(resp'.questionId)

\* C37: within one batch, over any sequence of serveNext calls interleaved with other
\* operations (a reset of shownThisSession among them), the batch path never returns the
\* same item id twice and never returns two items of the same normalized content: what
\* it returns differs, in id and in content, from every entry of the batch before the
\* serving index.
C37_NoRepeatInBatch == [][C37_Step]_vars

\* after a reset the batch has skipped the entry whose content was served before
C37_Witness ==
    /\ resp.op = "getRandomFlashcardJson"
    /\ resp.kind = "batch"
    /\ resp.seq = 2
    /\ resp.questionId = "pro-h-1"
    /\ getCurrentBatchFlashcards(rd) = <<"si-e-1", "si-e-2", "pro-h-1">>
    /\ getShownFlashcards(rd) = <<"pro-h-1">>
    /\ getDailyShownFlashcards(rd) = <<"pro-h-1">>

\* the reviewable items of the catalog, and those not shown in this session
ReviewableIds == {catalog[i].id : i \in {j \in 1..Len(catalog) : Reviewable(catalog[j].id)}}
UnshownIds == ReviewableIds \ Range(getShownFlashcards(rd))

\* serveNext returns an item, due before never shown before any, and starts the list of
\* the session anew when every item was shown
C38_Served ==
    /\ resp'.status = 200
    /\ resp'.questionId \in ReviewableIds
    /\ DueReviewable # {} => resp'.questionId \in DueReviewable
    /\ (DueReviewable = {} /\ UnshownIds # {}) => resp'.questionId \in UnshownIds
    /\ (DueReviewable = {} /\ UnshownIds = {}) => getShownFlashcards(rd') = <<resp'.questionId>>

C38_Step ==
    (/\ ServeCall
     /\ getSessionSubtopics(rd) # <<>>
     /\ ~BatchActive
     /\ ~cooldownActive(rd, now)
     /\ ReviewableIds # {}) => C38_Served

\* C38: with a session, no active batch, no active cooldown and a catalog that has at
\* least one reviewable item, serveNext always returns an item, preferring due over
\* never-shown over any and resetting shownThisSession when every item has been shown.
C38_AlwaysServes == [][C38_Step]_vars

\* the same with no batch stored at all
C38_NoBatchStep ==
    (/\ ServeCall
     /\ getSessionSubtopics(rd) # <<>>
     /\ NoBatch
     /\ ~cooldownActive(rd, now)
     /\ ReviewableIds # {}) => C38_Served
C38_ServesWithoutBatch == [][C38_NoBatchStep]_vars

\* every item had been shown, and serveNext started the list anew
C38_ResetReached ==
    /\ resp.op = "getRandomFlashcardJson"
    /\ resp.kind = "random"
    /\ getShownFlashcards(rd) = <<resp.questionId>>
    /\ Cardinality(Range(getDailyShownFlashcards(rd))) = 3

\* getCooldown has answered that the user must wait
C39_Waiting == resp.op = "getUserCooldown" /\ ~resp.canStart

\* C39: whenever getCooldown reports canStart = false, its remainingSeconds satisfies
\* 1 <= remainingSeconds <= 300, for every anchor that completeBatch can have accepted
\* (a client timestamp up to 1 second ahead of the server clock among them).
C39_RemainingInWindow ==
    C39_Waiting => (1 <= resp.remainingSeconds /\ resp.remainingSeconds <= 300)

\* with an anchor that is not after the instant of the query the bound holds, and no
\* anchor gives more than one second above it
C39_PastAnchor ==
    C39_Waiting =>
        /\ 1 <= resp.remainingSeconds
        /\ resp.remainingSeconds <= 301
        /\ getBatchCompletionTime(rd)[1] <= resp.at => resp.remainingSeconds <= 300

C39_PastAnchorReached ==
    /\ C39_Waiting
    /\ getBatchCompletionTime(rd)[1] = resp.at
    /\ resp.remainingSeconds = 300

-----------------------------------------------------------------------------
(* SpecWriters: two operations of the same user over the one users file, interleaved at
   the read and write of the file.  rd is the content of the file, args holds for each
   writer its position, its operation and the copy of the file it has loaded, and
   resp.saved lists the writers in the order of their writes *)

Writers == {"w1", "w2"}
WriterUser == "userA"

InitWriters ==
    /\ now = 0
    /\ catalog = ReviewCatalog
    /\ rd = [u \in UserIds |-> EmptyReviewData]
    /\ args = [w \in Writers |-> [pc |-> "idle"]]
    /\ resp = [op |-> "none", seq |-> 0, saved |-> <<>>]

\* loadUsers in the operation of writer w: the whole file is read
LoadWriter ==
    \E w \in Writers, operation \in UserOps :
        /\ args[w].pc = "idle"
        /\ args' = [args EXCEPT ![w] = [pc |-> "loaded", users |-> rd, operation |-> operation]]
        /\ resp' = [resp EXCEPT !.op = "loadUsers", !.seq = @ + 1]
        /\ UNCHANGED <<now, catalog, rd>>

\* saveUsers in the operation of writer w: the loaded copy, with the record of the user
\* changed, replaces the whole file
SaveWriter ==
    \E w \in Writers :
        /\ args[w].pc = "loaded"
        /\ rd' = saveUsers(rd, [args[w].users EXCEPT ![WriterUser] = applyUserOp(@, args[w].operation, now)], TRUE)
        /\ args' = [args EXCEPT ![w] = [pc |-> "done", operation |-> args[w].operation]]
        /\ resp' = [resp EXCEPT !.op = "saveUsers", !.saved = Append(@, w)]
        /\ UNCHANGED <<now, catalog>>

NextWriters == LoadWriter \/ SaveWriter

SpecWriters == InitWriters /\ [][NextWriters]_vars

\* both writers have written
C40_BothDone == Len(resp.saved) = 2

\* the operation of the first and of the second writer to write
C40_FirstOp == args[resp.saved[1]].operation
C40_SecondOp == args[resp.saved[2]].operation

\* the record both operations give when one runs after the other, and the record of the
\* second operation alone
C40_Serial == applyUserOp(applyUserOp(EmptyReviewData, C40_FirstOp, now), C40_SecondOp, now)
C40_SecondAlone == applyUserOp(EmptyReviewData, C40_SecondOp, now)

\* C40: two read-modify-write operations of the same user whose read and write steps
\* interleave can lose an update: the final record is that of both operations in the
\* order of their writes or, with the first writer's change absent, that of the second
\* operation alone; the second case is reachable.
C40_LastWriterWins ==
    C40_BothDone => rd[WriterUser] \in {C40_Serial, C40_SecondAlone}

\* the first writer marked an item as shown and the final record does not list it
C40_Witness ==
    /\ C40_BothDone
    /\ C40_FirstOp.name = "markFlashcardAsShown"
    /\ C40_SecondOp.name = "submitRating"
    /\ C40_FirstOp.questionId \notin Range(getShownFlashcards(rd[WriterUser]))
    /\ rd[WriterUser] # C40_Serial

\* the first writer recorded a rating and the final record does not hold it
C40_RatingLost ==
    /\ C40_BothDone
    /\ C40_FirstOp.name = "submitRating"
    /\ C40_FirstOp.questionId # C40_SecondOp.questionId
    /\ Lookup(rd[WriterUser], C40_FirstOp.questionId) = Undefined

====
